---- MODULE Spec2Model ----
(***************************************************************************)
(* The vector similarity store of the fake-qdrant component:               *)
(*   - the HNSW index engine            (hnsw/index.ts, hnsw/types.ts)      *)
(*   - the log + snapshot Store         (store.ts, JSONL + HNSW iteration)  *)
(*   - the SQLite Store                 (src/fake-qdrant/store.ts)          *)
(*   - the HTTP wire adapter            (qdrant-http.ts)                    *)
(*                                                                         *)
(* Numbers.  Vector entries are integers.  A similarity score c (a cosine) *)
(* is carried as the exact rational sgn(c)*c^2 = [n, d], which orders      *)
(* scores exactly as the cosines do and has -1, 0 and 1 as fixed points.   *)
(* d = 0 stands for NaN.  Floating-point rounding is outside the model.    *)
(***************************************************************************)
EXTENDS Integers, Sequences, FiniteSets, TLC

VARIABLES
    \* ---- log + snapshot Store (one directory per collection) ----
    metaFile,      \* name -> NoFile | [size, distance]          meta.json
    pointsFile,    \* name -> NoFile | [lines: Seq(line)]         points.jsonl
    hnswFile,      \* name -> NoFile | serialized HNSWState       hnsw.json
    indexCache,    \* name -> NoCache | [index, payloads, dirty]  Store.indexCache
    last,          \* the call on the log store the client is in, and its outcome
    sinceCreate,   \* history: name -> ids upserted since its last createCollection
    \* ---- SQLite Store and the HTTP adapter in front of it ----
    dbFiles,       \* name -> NoFile | [size, distance, vectors, payloads]
    dbs,           \* names with a cached open database handle   Store.dbs
    upserted,      \* history: name -> (point id -> payload of its latest upsert)
    removed,       \* history: name -> ids named in a delete list since their upsert
    http,          \* the request the client is in, and its response
    \* ---- log + snapshot Store, calls taken one I/O step at a time ----
    tmpFile,       \* name -> NoFile | [lines: Seq(line)]         points.jsonl.tmp
    compacting,    \* the compactCollection call in flight: NoCall | [name, pc, points]
    upserting,     \* the upsertPoints call in flight: NoCall | [name, pc, points, levels]
    acked,         \* history: name -> (id -> line of its latest upsert that returned)
    \* ---- an HNSWIndex on its own ----
    hnsw,          \* the index: [config, order, nodes, entryPoint, maxLevel]
    hcall,         \* the call on the index the client is in, and its outcome
    \* ---- log + snapshot Store, several calls in flight ----
    inflight       \* slot -> NoCall | the call in flight in that slot

logVars == <<metaFile, pointsFile, hnswFile, indexCache, last, sinceCreate>>
sqlVars == <<dbFiles, dbs, upserted, removed, http>>
asyncVars == <<tmpFile, compacting, upserting, acked>>
auxVars == <<hnsw, hcall, inflight>>
vars == <<metaFile, pointsFile, hnswFile, indexCache, last, sinceCreate,
          dbFiles, dbs, upserted, removed, http,
          tmpFile, compacting, upserting, acked,
          hnsw, hcall, inflight>>

\* the calls that can be in flight at once on the log store
Slots == {1, 2}

(***************************************************************************)
(* Bounds of the model                                                     *)
(***************************************************************************)
MaxLevel == 1      \* randomLevel() is drawn from 0..MaxLevel
MaxLog == 2        \* lines in points.jsonl
MaxBatch == 2      \* points in one upsertPoints call

(***************************************************************************)
(* Generic helpers                                                         *)
(***************************************************************************)
Range(s) == {s[i] : i \in 1..Len(s)}

Front(s) == SubSeq(s, 1, Len(s) - 1)

Last(s) == s[Len(s)]

Min(a, b) == IF a < b THEN a ELSE b

Max(a, b) == IF a > b THEN a ELSE b

Abs(x) == IF x < 0 THEN 0 - x ELSE x

RECURSIVE Gcd(_, _)
Gcd(a, b) == IF b = 0 THEN a ELSE Gcd(b, a % b)

\* Set.add on an insertion-ordered Set
SetAdd(s, x) == IF x \in Range(s) THEN s ELSE Append(s, x)

\* Set.delete on an insertion-ordered Set
RECURSIVE SetDelete(_, _)
SetDelete(s, x) ==
    IF s = <<>> THEN <<>>
    ELSE IF s[1] = x THEN SetDelete(Tail(s), x)
    ELSE <<s[1]>> \o SetDelete(Tail(s), x)

\* Map.set on a map kept as [order: keys in insertion order, at: key -> value]
EmptyMap == [order |-> <<>>, at |-> <<>>]

MapHas(m, k) == k \in Range(m.order)

MapSet(m, k, v) ==
    IF MapHas(m, k)
    THEN [m EXCEPT !.at = [x \in DOMAIN m.at |-> IF x = k THEN v ELSE m.at[x]]]
    ELSE [order |-> Append(m.order, k), at |-> (k :> v) @@ m.at]

MapSize(m) == Len(m.order)

(***************************************************************************)
(* Point ids, vectors, payloads                                            *)
(*                                                                         *)
(* An id is [t, s]: its JavaScript type and its String() form.  Two ids    *)
(* are the same JavaScript value iff they agree on both.                   *)
(***************************************************************************)
NumId(s) == [t |-> "number", s |-> s]

StrId(s) == [t |-> "string", s |-> s]

NullId == [t |-> "null", s |-> "null"]

isValidPointId(id) == id.t = "string" \/ id.t = "number"

\* a vector entry that Number.isFinite rejects (NaN, Infinity, null)
NonFinite == 1000

IsFinite(x) == x # NonFinite

\* JSON values: null, strings, numbers (by their String() form), objects
JNull == [t |-> "null"]

\* no call of the kind is in flight
NoCall == [pc |-> "none"]

JUndefined == [t |-> "undefined"]

JStr(s) == [t |-> "string", s |-> s]

JNum(s) == [t |-> "number", s |-> s]

JObj(f) == [t |-> "object", f |-> f]

\* value ?? null
OrNull(v) == IF v = JUndefined \/ v = JNull THEN JNull ELSE v

(***************************************************************************)
(* Similarity                                                              *)
(***************************************************************************)
NaNScore == [n |-> 0, d |-> 0]

MkScore(n, d) ==
    LET g == Gcd(Abs(n), d) IN [n |-> n \div g, d |-> d \div g]

RECURSIVE SumTo(_, _)
SumTo(f, k) == IF k = 0 THEN 0 ELSE f[k] + SumTo(f, k - 1)

\* cosineSimilarity(a, b): the loop runs over a's indices and reads b[i];
\* past b's end b[i] is undefined and every sum involving it is NaN.
cosineSimilarity(a, b) ==
    IF Len(b) < Len(a) THEN NaNScore
    ELSE LET dot   == SumTo([i \in 1..Len(a) |-> a[i] * b[i]], Len(a))
             normA == SumTo([i \in 1..Len(a) |-> a[i] * a[i]], Len(a))
             normB == SumTo([i \in 1..Len(a) |-> b[i] * b[i]], Len(a))
         IN IF normA * normB = 0 THEN MkScore(0, 1)
            ELSE MkScore((IF dot < 0 THEN 0 - 1 ELSE 1) * dot * dot, normA * normB)

\* s1 < s2 on scores; any comparison with NaN is false
ScoreLT(s1, s2) == s1.d # 0 /\ s2.d # 0 /\ s1.n * s2.d < s2.n * s1.d

ScoreGT(s1, s2) == ScoreLT(s2, s1)

ScoreGE(s1, s2) == s1.d # 0 /\ s2.d # 0 /\ s1.n * s2.d >= s2.n * s1.d

\* arr.sort((a, b) => b.score - a.score): stable, descending; a NaN
\* difference compares as equal
RECURSIVE InsertSorted(_, _)
InsertSorted(s, e) ==
    IF s = <<>> THEN <<e>>
    ELSE IF ScoreLT(Last(s).score, e.score)
         THEN Append(InsertSorted(Front(s), e), Last(s))
         ELSE Append(s, e)

RECURSIVE SortDesc(_)
SortDesc(s) == IF s = <<>> THEN <<>> ELSE InsertSorted(SortDesc(Front(s)), Last(s))

\* arr.slice(0, k)
Slice(s, k) == SubSeq(s, 1, Min(k, Len(s)))

(***************************************************************************)
(* HNSW index engine (hnsw/types.ts, hnsw/index.ts)                        *)
(*                                                                         *)
(* An index is [config, order, nodes, entryPoint, maxLevel]: `nodes` maps  *)
(* an id to [vector, layer, neighbors], `order` is the insertion order of  *)
(* the nodes Map, and neighbors[l] is the insertion-ordered Set of layer l.*)
(***************************************************************************)
DEFAULT_HNSW_CONFIG == [M |-> 16, Mmax0 |-> 32, efConstruction |-> 200, efSearch |-> 50]

NewIndex(config) ==
    [config |-> config, order |-> <<>>, nodes |-> <<>>, entryPoint |-> NullId, maxLevel |-> 0]

IndexSize(idx) == Len(idx.order)

IndexIsEmpty(idx) == Len(idx.order) = 0

IndexHas(idx, id) == id \in DOMAIN idx.nodes

\* similarity() with metric "cosine"
similarity(a, b) == cosineSimilarity(a, b)

\* distance(a, b) < distance(c, d) with metric "cosine": 1 - cos is smaller
\* exactly when cos is larger
DistanceLT(s1, s2) == ScoreGT(s1, s2)

\* the for-loop of greedyClosest over the neighbors of `current`:
\* acc = [closest, closestDist]
RECURSIVE ClosestNeighbor(_, _, _, _, _)
ClosestNeighbor(idx, queryVector, nbrs, i, acc) ==
    IF i > Len(nbrs) THEN acc
    ELSE IF ~IndexHas(idx, nbrs[i]) THEN ClosestNeighbor(idx, queryVector, nbrs, i + 1, acc)
    ELSE LET Closer(dist) ==
                 IF DistanceLT(dist, acc.dist) THEN [id |-> nbrs[i], dist |-> dist] ELSE acc
         IN ClosestNeighbor(idx, queryVector, nbrs, i + 1,
                            Closer(similarity(queryVector, idx.nodes[nbrs[i]].vector)))

RECURSIVE GreedyFrom(_, _, _, _, _)
GreedyFrom(idx, queryVector, current, currentDist, level) ==
    IF level \notin DOMAIN idx.nodes[current].neighbors THEN current
    ELSE LET Move(best) ==
                 IF best.id = current THEN current
                 ELSE GreedyFrom(idx, queryVector, best.id, best.dist, level)
         IN Move(ClosestNeighbor(idx, queryVector, idx.nodes[current].neighbors[level], 1,
                                 [id |-> current, dist |-> currentDist]))

greedyClosest(idx, queryVector, startNode, level) ==
    GreedyFrom(idx, queryVector, startNode,
               similarity(queryVector, idx.nodes[startNode].vector), level)

\* the descent `for (l = from; l > to; l--) currentNode = greedyClosest(...)`
RECURSIVE Descend(_, _, _, _, _)
Descend(idx, queryVector, currentNode, l, to) ==
    IF l <= to THEN currentNode
    ELSE Descend(idx, queryVector, greedyClosest(idx, queryVector, currentNode, l), l - 1, to)

\* an inner loop that never trims the results back to ef
RECURSIVE ExpandNeighborsUntrimmed(_, _, _, _, _, _)
ExpandNeighborsUntrimmed(idx, queryVector, ef, nbrs, i, st) ==
    IF i > Len(nbrs) THEN st
    ELSE IF nbrs[i] \in st.visited
    THEN ExpandNeighborsUntrimmed(idx, queryVector, ef, nbrs, i + 1, st)
    ELSE LET e == [id |-> nbrs[i], score |-> similarity(queryVector, idx.nodes[nbrs[i]].vector)]
         IN ExpandNeighborsUntrimmed(idx, queryVector, ef, nbrs, i + 1,
                [st EXCEPT !.visited = @ \cup {nbrs[i]},
                           !.candidates = Append(@, e),
                           !.results = SortDesc(Append(@, e))])

\* the inner for-loop of searchLayer over the neighbors of the popped
\* candidate: st = [visited, candidates, results]
RECURSIVE ExpandNeighbors(_, _, _, _, _, _)
ExpandNeighbors(idx, queryVector, ef, nbrs, i, st) ==
    IF i > Len(nbrs) THEN st
    ELSE IF nbrs[i] \in st.visited THEN ExpandNeighbors(idx, queryVector, ef, nbrs, i + 1, st)
    ELSE LET st1 == [st EXCEPT !.visited = @ \cup {nbrs[i]}] IN
         IF ~IndexHas(idx, nbrs[i]) THEN ExpandNeighbors(idx, queryVector, ef, nbrs, i + 1, st1)
         ELSE LET Trim(r1) == IF Len(r1) > ef THEN Front(r1) ELSE r1
                  Visit(score) ==
                      IF Len(st1.results) < ef \/ ScoreGT(score, Last(st1.results).score)
                      THEN [st1 EXCEPT
                               !.candidates = Append(@, [id |-> nbrs[i], score |-> score]),
                               !.results = Trim(SortDesc(Append(@, [id |-> nbrs[i], score |-> score])))]
                      ELSE st1
              IN ExpandNeighbors(idx, queryVector, ef, nbrs, i + 1,
                                 Visit(similarity(queryVector, idx.nodes[nbrs[i]].vector)))

\* the while-loop of searchLayer; candidates.pop() takes the LAST element of
\* the array, which is sorted by descending score
RECURSIVE SearchLoop(_, _, _, _, _)
SearchLoop(idx, queryVector, ef, level, st) ==
    IF st.candidates = <<>> THEN SortDesc(st.results)
    ELSE LET current == Last(st.candidates)
             results == SortDesc(st.results)
             st0     == [st EXCEPT !.candidates = Front(@), !.results = results]
         IN IF Len(results) >= ef /\ ScoreLT(current.score, results[ef].score)
            THEN SortDesc(results)
            ELSE IF ~IndexHas(idx, current.id) THEN SearchLoop(idx, queryVector, ef, level, st0)
            ELSE IF level \notin DOMAIN idx.nodes[current.id].neighbors
                 THEN SearchLoop(idx, queryVector, ef, level, st0)
            ELSE LET st1 == ExpandNeighbors(idx, queryVector, ef,
                                idx.nodes[current.id].neighbors[level], 1, st0)
                 IN SearchLoop(idx, queryVector, ef, level,
                               [st1 EXCEPT !.candidates = SortDesc(@)])

\* a searchLayer that returns every node of the index, whatever its layer
searchLayerAllNodes(idx, queryVector, entryPoints, ef, level) ==
    SortDesc([i \in 1..Len(idx.order) |->
                 [id |-> idx.order[i],
                  score |-> similarity(queryVector, idx.nodes[idx.order[i]].vector)]])

\* the entry points present in the index, scored
RECURSIVE ScoreEntries(_, _, _)
ScoreEntries(idx, queryVector, eps) ==
    IF eps = <<>> THEN <<>>
    ELSE LET rest == ScoreEntries(idx, queryVector, Tail(eps))
         IN IF IndexHas(idx, eps[1])
            THEN <<[id |-> eps[1], score |-> similarity(queryVector, idx.nodes[eps[1]].vector)]>> \o rest
            ELSE rest

searchLayer(idx, queryVector, entryPoints, ef, level) ==
    LET scored == ScoreEntries(idx, queryVector, entryPoints)
    IN SearchLoop(idx, queryVector, ef, level,
                  [visited |-> Range(entryPoints), candidates |-> SortDesc(scored), results |-> scored])

\* selectNeighbors: the ids of the top maxConnections candidates
selectNeighbors(queryVector, candidates, maxConnections) ==
    LET top == Slice(SortDesc(candidates), maxConnections)
    IN [i \in 1..Len(top) |-> top[i].id]

\* neighbors[level] of node `id` replaced
WithNeighbors(idx, id, level, nbrs) ==
    [idx EXCEPT !.nodes = [x \in DOMAIN idx.nodes |->
        IF x = id THEN [idx.nodes[x] EXCEPT !.neighbors = [l \in DOMAIN idx.nodes[x].neighbors |->
                            IF l = level THEN nbrs ELSE idx.nodes[x].neighbors[l]]]
        ELSE idx.nodes[x]]]

HasLevel(idx, id, level) == IndexHas(idx, id) /\ level \in DOMAIN idx.nodes[id].neighbors

\* the scoring loop of pruneConnections
RECURSIVE ScoreNeighbors(_, _, _)
ScoreNeighbors(idx, vector, nbrs) ==
    IF nbrs = <<>> THEN <<>>
    ELSE LET rest == ScoreNeighbors(idx, vector, Tail(nbrs))
         IN IF IndexHas(idx, nbrs[1])
            THEN <<[id |-> nbrs[1], score |-> similarity(vector, idx.nodes[nbrs[1]].vector)]>> \o rest
            ELSE rest

\* a removal loop that leaves the back-connections in place
RECURSIVE PruneLoopOneSided(_, _, _, _, _, _)
PruneLoopOneSided(idx, nodeId, level, keep, all, i) ==
    IF i > Len(all) THEN idx
    ELSE IF all[i] \in keep THEN PruneLoopOneSided(idx, nodeId, level, keep, all, i + 1)
    ELSE PruneLoopOneSided(WithNeighbors(idx, nodeId, level,
                                         SetDelete(idx.nodes[nodeId].neighbors[level], all[i])),
                           nodeId, level, keep, all, i + 1)

\* the removal loop of pruneConnections over Array.from(neighbors)
RECURSIVE PruneLoop(_, _, _, _, _, _)
PruneLoop(idx, nodeId, level, keep, all, i) ==
    IF i > Len(all) THEN idx
    ELSE IF all[i] \in keep THEN PruneLoop(idx, nodeId, level, keep, all, i + 1)
    ELSE LET idx1 == WithNeighbors(idx, nodeId, level,
                                   SetDelete(idx.nodes[nodeId].neighbors[level], all[i]))
             idx2 == IF HasLevel(idx1, all[i], level)
                     THEN WithNeighbors(idx1, all[i], level,
                                        SetDelete(idx1.nodes[all[i]].neighbors[level], nodeId))
                     ELSE idx1
         IN PruneLoop(idx2, nodeId, level, keep, all, i + 1)

\* a pruneConnections that keeps every neighbor
pruneConnectionsNone(idx, nodeId, level, maxConnections) == idx

pruneConnections(idx, nodeId, level, maxConnections) ==
    IF ~HasLevel(idx, nodeId, level) \/ Len(idx.nodes[nodeId].neighbors[level]) <= maxConnections
    THEN idx
    ELSE LET nbrs   == idx.nodes[nodeId].neighbors[level]
             scored == SortDesc(ScoreNeighbors(idx, idx.nodes[nodeId].vector, nbrs))
             Keep(top) == {top[i].id : i \in 1..Len(top)}
         IN PruneLoop(idx, nodeId, level, Keep(Slice(scored, maxConnections)), nbrs, 1)

\* `for (const neighborId of selectedNeighbors)` of insert
RECURSIVE ConnectLoop(_, _, _, _, _, _)
ConnectLoop(idx, id, l, selected, i, maxConnections) ==
    IF i > Len(selected) THEN idx
    ELSE LET nb   == selected[i]
             idx1 == WithNeighbors(idx, id, l, SetAdd(idx.nodes[id].neighbors[l], nb))
             idx2 == IF HasLevel(idx1, nb, l)
                     THEN LET linked == WithNeighbors(idx1, nb, l,
                                            SetAdd(idx1.nodes[nb].neighbors[l], id))
                          IN IF Len(linked.nodes[nb].neighbors[l]) > maxConnections
                             THEN pruneConnections(linked, nb, l, maxConnections)
                             ELSE linked
                     ELSE idx1
         IN ConnectLoop(idx2, id, l, selected, i + 1, maxConnections)

\* `for (l = min(level, maxLevel); l >= 0; l--)` of insert
RECURSIVE InsertLevels(_, _, _, _, _)
InsertLevels(idx, id, vector, l, currentNode) ==
    IF l < 0 THEN idx
    ELSE LET maxConnections == IF l = 0 THEN idx.config.Mmax0 ELSE idx.config.M
             Connect(neighbors) ==
                 InsertLevels(ConnectLoop(idx, id, l,
                                          selectNeighbors(vector, neighbors, maxConnections),
                                          1, maxConnections),
                              id, vector, l - 1,
                              IF Len(neighbors) > 0 THEN neighbors[1].id ELSE currentNode)
         IN Connect(searchLayer(idx, vector, <<currentNode>>, idx.config.efConstruction, l))

\* an update of an existing id that also empties the node's neighbor sets
ReplaceVectorAndUnlink(idx, id, vector) ==
    [idx EXCEPT !.nodes = [x \in DOMAIN idx.nodes |->
        IF x = id THEN [idx.nodes[x] EXCEPT !.vector = vector,
                                            !.neighbors = [l \in DOMAIN @ |-> <<>>]]
        ELSE idx.nodes[x]]]

\* insert(id, vector) for an id the index holds: `existing.vector = vector`
ReplaceVector(idx, id, vector) ==
    [idx EXCEPT !.nodes = [x \in DOMAIN idx.nodes |->
        IF x = id THEN [idx.nodes[x] EXCEPT !.vector = vector] ELSE idx.nodes[x]]]

\* insert(id, vector), with `level` the value randomLevel() returns
HnswInsert(idx, id, vector, level) ==
    IF IndexHas(idx, id)
    THEN ReplaceVector(idx, id, vector)
    ELSE LET node == [vector |-> vector, layer |-> level, neighbors |-> [l \in 0..level |-> <<>>]]
             idx0 == [idx EXCEPT !.order = Append(@, id), !.nodes = (id :> node) @@ @]
         IN IF idx.entryPoint = NullId
            THEN [idx0 EXCEPT !.entryPoint = id, !.maxLevel = level]
            ELSE LET Promote(idx1) ==
                         IF level > idx1.maxLevel
                         THEN [idx1 EXCEPT !.entryPoint = id, !.maxLevel = level]
                         ELSE idx1
                 IN Promote(InsertLevels(idx0, id, vector, Min(level, idx0.maxLevel),
                                Descend(idx0, vector, idx0.entryPoint, idx0.maxLevel, level)))

\* a remove that leaves the neighbors' sets as they are
UnlinkLoopNone(idx, id, level, nbrs, i) == idx

\* a reselection that takes the first node of the Map
NewEntryFirst(idx, i, best) ==
    [entryPoint |-> idx.order[1], maxLevel |-> idx.nodes[idx.order[1]].layer]

\* the inner loop of remove: `id` leaves the level-`level` set of each neighbor
RECURSIVE UnlinkLoop(_, _, _, _, _)
UnlinkLoop(idx, id, level, nbrs, i) ==
    IF i > Len(nbrs) THEN idx
    ELSE UnlinkLoop(IF HasLevel(idx, nbrs[i], level)
                    THEN WithNeighbors(idx, nbrs[i], level,
                                       SetDelete(idx.nodes[nbrs[i]].neighbors[level], id))
                    ELSE idx,
                    id, level, nbrs, i + 1)

\* `for (const [level, neighbors] of node.neighbors)` of remove
RECURSIVE UnlinkLevels(_, _, _)
UnlinkLevels(idx, id, level) ==
    IF level \notin DOMAIN idx.nodes[id].neighbors THEN idx
    ELSE UnlinkLevels(UnlinkLoop(idx, id, level, idx.nodes[id].neighbors[level], 1),
                      id, level + 1)

\* the scan of remove for a new entry point: the last node, in Map order,
\* of the highest layer
RECURSIVE NewEntry(_, _, _)
NewEntry(idx, i, best) ==
    IF i > Len(idx.order) THEN best
    ELSE NewEntry(idx, i + 1,
                  IF idx.nodes[idx.order[i]].layer >= best.maxLevel
                  THEN [entryPoint |-> idx.order[i], maxLevel |-> idx.nodes[idx.order[i]].layer]
                  ELSE best)

\* remove(id): the index afterwards
HnswRemove(idx, id) ==
    IF ~IndexHas(idx, id) THEN idx
    ELSE LET Drop(idx1) ==
                 [idx1 EXCEPT !.order = SelectSeq(@, LAMBDA x : x # id),
                              !.nodes = [x \in DOMAIN idx1.nodes \ {id} |-> idx1.nodes[x]]]
             Reselect(idx2) ==
                 IF idx.entryPoint # id THEN idx2
                 ELSE IF Len(idx2.order) = 0
                 THEN [idx2 EXCEPT !.entryPoint = NullId, !.maxLevel = 0]
                 ELSE LET Set(best) == [idx2 EXCEPT !.entryPoint = best.entryPoint,
                                                    !.maxLevel = best.maxLevel]
                      IN Set(NewEntry(idx2, 1, [entryPoint |-> NullId, maxLevel |-> 0]))
         IN Reselect(Drop(UnlinkLevels(idx, id, 0)))

\* a search that scores the entry point and looks no further
HnswSearchEntryOnly(idx, queryVector, k, ef) ==
    IF idx.entryPoint = NullId THEN <<>>
    ELSE <<[id |-> idx.entryPoint,
            score |-> similarity(queryVector, idx.nodes[idx.entryPoint].vector)]>>

\* search(queryVector, k, efSearch)
HnswSearch(idx, queryVector, k, ef) ==
    IF idx.entryPoint = NullId THEN <<>>
    ELSE LET currentNode == Descend(idx, queryVector, idx.entryPoint, idx.maxLevel, 0)
         IN Slice(searchLayer(idx, queryVector, <<currentNode>>, ef, 0), k)

\* a serialize that writes the layer-0 neighbor set of each node only
HnswSerializeLayer0(idx) ==
    [config |-> idx.config, entryPoint |-> idx.entryPoint, maxLevel |-> idx.maxLevel,
     nodes |-> [i \in 1..Len(idx.order) |->
         LET n == idx.nodes[idx.order[i]]
         IN [id |-> idx.order[i], vector |-> n.vector, layer |-> n.layer,
             neighbors |-> <<<<0, n.neighbors[0]>>>>]]]

\* serialize(): nodes in Map order, each with its [layer, ids[]] pairs
HnswSerialize(idx) ==
    [config |-> idx.config, entryPoint |-> idx.entryPoint, maxLevel |-> idx.maxLevel,
     nodes |-> [i \in 1..Len(idx.order) |->
         LET n == idx.nodes[idx.order[i]]
         IN [id |-> idx.order[i], vector |-> n.vector, layer |-> n.layer,
             neighbors |-> [j \in 1..(n.layer + 1) |-> <<j - 1, n.neighbors[j - 1]>>]]]]

\* new Set(ids)
RECURSIVE ToSet(_)
ToSet(ids) == IF ids = <<>> THEN <<>> ELSE SetAdd(ToSet(Front(ids)), Last(ids))

\* the `for (const nodeData of state.nodes)` loop of deserialize
RECURSIVE DeserializeNodes(_, _, _)
DeserializeNodes(idx, nodes, i) ==
    IF i > Len(nodes) THEN idx
    ELSE LET nd   == nodes[i]
             nbrs == [l \in {nd.neighbors[j][1] : j \in 1..Len(nd.neighbors)} |->
                         \* Map.set: the last pair for a level wins
                         LET j == CHOOSE j1 \in 1..Len(nd.neighbors) :
                                      /\ nd.neighbors[j1][1] = l
                                      /\ \A j2 \in 1..Len(nd.neighbors) :
                                            nd.neighbors[j2][1] = l => j2 <= j1
                         IN ToSet(nd.neighbors[j][2])]
             node == [vector |-> nd.vector, layer |-> nd.layer, neighbors |-> nbrs]
             idx1 == IF IndexHas(idx, nd.id)
                     THEN [idx EXCEPT !.nodes = [x \in DOMAIN idx.nodes |->
                               IF x = nd.id THEN node ELSE idx.nodes[x]]]
                     ELSE [idx EXCEPT !.order = Append(@, nd.id), !.nodes = (nd.id :> node) @@ @]
         IN DeserializeNodes(idx1, nodes, i + 1)

\* HNSWIndex.deserialize(state)
HnswDeserialize(state) ==
    DeserializeNodes([NewIndex(state.config) EXCEPT !.entryPoint = state.entryPoint,
                                                    !.maxLevel = state.maxLevel],
                     state.nodes, 1)

(***************************************************************************)
(* Inputs of the model                                                     *)
(***************************************************************************)
CollectionNames == {"t"}

N1 == NumId("1")

N2 == NumId("2")

S1 == StrId("1")

PayloadA == JObj("path" :> JStr("/a"))

PayloadB == JObj("path" :> JStr("/b"))

Point(id, vector, payload) == [id |-> id, vector |-> vector, payload |-> payload]

\* points offered to the log store: two ids (the number 1 and the string
\* "1"), vectors of length 1 and 2, with and without payload; one point
\* without a usable id, one with a non-finite entry
LogPoints ==
    { Point(N1, <<1>>, JUndefined), Point(N1, <<0 - 1>>, PayloadA),
      Point(S1, <<1>>, PayloadA),   Point(N1, <<1, 0>>, JUndefined),
      Point(NullId, <<1>>, JUndefined), Point(N1, <<NonFinite>>, JUndefined) }

RECURSIVE SeqsUpTo(_, _)
SeqsUpTo(S, n) ==
    IF n = 0 THEN {<<>>}
    ELSE LET shorter == SeqsUpTo(S, n - 1)
         IN shorter \cup {Append(q, x) : q \in {r \in shorter : Len(r) = n - 1}, x \in S}

LogBatches == SeqsUpTo(LogPoints, MaxBatch)

SizeInputs == {0, 1, 2}

DistanceInputs == {"", "Cosine", "Dot"}

QueryVectors == {<<1>>, <<1, 0>>, <<NonFinite>>}

LimitInputs == {1, 20}

\* score thresholds -1 and 0 (the default)
ThresholdInputs == {MkScore(0 - 1, 1), MkScore(0, 1)}

(***************************************************************************)
(* The log + snapshot Store (store.ts, JSONL + HNSW)                       *)
(***************************************************************************)
NoFile == [t |-> "ENOENT"]

NoCache == [t |-> "nocache"]

Null == [t |-> "null"]

toLowerCase(s) == IF s = "Cosine" THEN "cosine" ELSE IF s = "Dot" THEN "dot" ELSE s

\* normalizeDistance: "Cosine", or "throw"
normalizeDistance(value) ==
    IF value = "" THEN "Cosine"
    ELSE IF toLowerCase(value) = "cosine" THEN "Cosine"
    ELSE "throw"

\* Store.getCollection: the parsed meta.json, or null on ENOENT
getCollection(name) ==
    IF metaFile[name] = NoFile THEN Null
    ELSE [name |-> name, vectors |-> metaFile[name]]

\* JSON.stringify({id, vector, payload: payload ?? null}); JSON.parse gives
\* the same record back
PointLine(point) ==
    [id |-> point.id, vector |-> point.vector, payload |-> OrNull(point.payload)]

\* a replay in which the first line of an id wins
RECURSIVE ReplayLinesFirstWins(_, _, _)
ReplayLinesFirstWins(lines, i, map) ==
    IF i > Len(lines) THEN map
    ELSE ReplayLinesFirstWins(lines, i + 1,
             IF MapHas(map, lines[i].id) THEN map ELSE MapSet(map, lines[i].id, lines[i]))

\* a line of points.jsonl on which JSON.parse throws
BadLine == [t |-> "unparseable"]

\* a replay that ends at the first unparseable line
RECURSIVE ReplayLinesStopAtBad(_, _, _)
ReplayLinesStopAtBad(lines, i, map) ==
    IF i > Len(lines) \/ lines[i] = BadLine THEN map
    ELSE ReplayLinesStopAtBad(lines, i + 1, MapSet(map, lines[i].id, lines[i]))

\* the loop of loadLatestPoints over the lines: map.set(record.id, record),
\* and nothing for a line on which JSON.parse throws
RECURSIVE ReplayLines(_, _, _)
ReplayLines(lines, i, map) ==
    IF i > Len(lines) THEN map
    ELSE IF lines[i] = BadLine THEN ReplayLines(lines, i + 1, map)
    ELSE ReplayLines(lines, i + 1, MapSet(map, lines[i].id, lines[i]))

\* Store.loadLatestPoints
loadLatestPoints(name) ==
    IF pointsFile[name] = NoFile THEN EmptyMap
    ELSE ReplayLines(pointsFile[name].lines, 1, EmptyMap)

\* the number of lines of points.jsonl
LogLength(name) == IF pointsFile[name] = NoFile THEN 0 ELSE Len(pointsFile[name].lines)

\* a validation that looks at the first point of the batch only
UpsertValidationFirstOnly(points, i, dimension) ==
    IF Len(points) = 0 THEN ""
    ELSE IF ~isValidPointId(points[1].id) THEN "Point id must be a string or number"
    ELSE IF \/ Len(points[1].vector) # dimension
            \/ \E k \in 1..Len(points[1].vector) : ~IsFinite(points[1].vector[k])
         THEN "Vector must contain finite numbers"
    ELSE ""

\* the validation loop of upsertPoints: "" when every point passes
RECURSIVE UpsertValidation(_, _, _)
UpsertValidation(points, i, dimension) ==
    IF i > Len(points) THEN ""
    ELSE IF ~isValidPointId(points[i].id) THEN "Point id must be a string or number"
    ELSE IF \/ Len(points[i].vector) # dimension
            \/ \E k \in 1..Len(points[i].vector) : ~IsFinite(points[i].vector[k])
         THEN "Vector must contain finite numbers"
    ELSE UpsertValidation(points, i + 1, dimension)

\* the `for (const point of points)` loop of upsertPoints on a cached index;
\* levels[i] is what randomLevel() returns for the i-th point
RECURSIVE CacheInsertAll(_, _, _, _)
CacheInsertAll(cache, points, levels, i) ==
    IF i > Len(points) THEN cache
    ELSE CacheInsertAll(
             [cache EXCEPT !.index = HnswInsert(@, points[i].id, points[i].vector, levels[i]),
                           !.payloads = MapSet(@, points[i].id, OrNull(points[i].payload))],
             points, levels, i + 1)

\* the rebuild loop of ensureIndex; levels[id] is what randomLevel() returns
RECURSIVE BuildIndex(_, _, _, _)
BuildIndex(idx, points, levels, i) ==
    IF i > Len(points.order) THEN idx
    ELSE BuildIndex(HnswInsert(idx, points.order[i], points.at[points.order[i]].vector,
                               levels[points.order[i]]),
                    points, levels, i + 1)

RECURSIVE PayloadsOf(_, _, _)
PayloadsOf(points, i, map) ==
    IF i > Len(points.order) THEN map
    ELSE PayloadsOf(points, i + 1,
                    MapSet(map, points.order[i], points.at[points.order[i]].payload))

\* Store.ensureIndex(name, preloadedPoints): the cache entry it returns and
\* stores.  `points` is preloadedPoints ?? loadLatestPoints(name).
ensureIndex(name, points, levels) ==
    IF indexCache[name] # NoCache THEN indexCache[name]
    ELSE LET Rebuilt(loaded) ==
                 IF loaded = Null \/ IndexSize(loaded) # MapSize(points)
                 THEN BuildIndex(NewIndex(DEFAULT_HNSW_CONFIG), points, levels, 1)
                 ELSE loaded
         IN [index |-> Rebuilt(IF hnswFile[name] = NoFile THEN Null
                               ELSE HnswDeserialize(hnswFile[name])),
             payloads |-> PayloadsOf(points, 1, EmptyMap), dirty |-> FALSE]

\* the options of Store.create: useHnsw = true, hnswEfSearch = 50
hnswEfSearch == 50

\* the filter loop of queryWithHnsw
RECURSIVE FilterResults(_, _, _, _, _, _)
FilterResults(results, i, payloads, limit, scoreThreshold, filtered) ==
    IF i > Len(results) THEN filtered
    ELSE LET r  == results[i]
             f1 == IF ScoreGE(r.score, scoreThreshold)
                   THEN Append(filtered,
                               [id |-> r.id, score |-> r.score,
                                payload |-> IF MapHas(payloads, r.id)
                                            THEN OrNull(payloads.at[r.id]) ELSE JNull])
                   ELSE filtered
         IN IF Len(f1) >= limit THEN f1
            ELSE FilterResults(results, i + 1, payloads, limit, scoreThreshold, f1)

\* Store.queryWithHnsw on the cache entry ensureIndex returned, for a Store
\* whose option hnswEfSearch is `ef`
queryWithEf(cache, queryVector, limit, scoreThreshold, ef) ==
    IF IndexIsEmpty(cache.index) THEN <<>>
    ELSE FilterResults(HnswSearch(cache.index, queryVector, Max(limit * 2, 50), ef),
                       1, cache.payloads, limit, scoreThreshold, <<>>)

queryWithHnsw(cache, queryVector, limit, scoreThreshold) ==
    queryWithEf(cache, queryVector, limit, scoreThreshold, hnswEfSearch)

Call(op, name, args, ok, out) == [op |-> op, name |-> name, args |-> args, ok |-> ok, out |-> out]

\* new Store(baseDir) over an existing data directory: the cache starts empty
StoreCreate ==
    /\ indexCache' = [n \in CollectionNames |-> NoCache]
    /\ UNCHANGED <<metaFile, pointsFile, hnswFile, last, sinceCreate>>

createCollection(name, size, distance) ==
    IF size <= 0
    THEN /\ last' = Call("createCollection", name, <<size, distance>>, FALSE,
                         "Collection size must be a positive integer")
         /\ UNCHANGED <<metaFile, pointsFile, hnswFile, indexCache, sinceCreate>>
    ELSE IF normalizeDistance(distance) = "throw"
    THEN /\ last' = Call("createCollection", name, <<size, distance>>, FALSE,
                         "Unsupported distance metric")
         /\ UNCHANGED <<metaFile, pointsFile, hnswFile, indexCache, sinceCreate>>
    ELSE /\ metaFile' = [metaFile EXCEPT ![name] =
                            [size |-> size, distance |-> normalizeDistance(distance)]]
         \* fs.appendFile(pointsPath, ""): creates the file, keeps its content
         /\ pointsFile' = [pointsFile EXCEPT ![name] = IF @ = NoFile THEN [lines |-> <<>>] ELSE @]
         /\ indexCache' = [indexCache EXCEPT ![name] = NoCache]
         /\ last' = Call("createCollection", name, <<size, distance>>, TRUE, <<>>)
         /\ sinceCreate' = [sinceCreate EXCEPT ![name] = {}]
         /\ UNCHANGED hnswFile

\* a deleteCollection that removes the directory and keeps the cached index
deleteCollectionKeepCache(name) ==
    /\ metaFile' = [metaFile EXCEPT ![name] = NoFile]
    /\ pointsFile' = [pointsFile EXCEPT ![name] = NoFile]
    /\ hnswFile' = [hnswFile EXCEPT ![name] = NoFile]
    /\ last' = Call("deleteCollection", name,
                    <<metaFile[name] # NoFile, indexCache[name] # NoCache>>, TRUE, <<>>)
    /\ sinceCreate' = [sinceCreate EXCEPT ![name] = {}]
    /\ UNCHANGED indexCache

\* Store.deleteCollection.  As history, `args` of the call keeps whether the
\* collection existed and whether it had a cached index.
deleteCollection(name) ==
    /\ indexCache' = [indexCache EXCEPT ![name] = NoCache]
    /\ metaFile' = [metaFile EXCEPT ![name] = NoFile]
    /\ pointsFile' = [pointsFile EXCEPT ![name] = NoFile]
    /\ hnswFile' = [hnswFile EXCEPT ![name] = NoFile]
    /\ last' = Call("deleteCollection", name,
                    <<metaFile[name] # NoFile, indexCache[name] # NoCache>>, TRUE, <<>>)
    /\ sinceCreate' = [sinceCreate EXCEPT ![name] = {}]

\* the error upsertPoints throws before it writes anything, "" when none
UpsertError(name, points) ==
    LET collection == getCollection(name)
    IN IF collection = Null THEN "Collection not found"
       ELSE UpsertValidation(points, 1, collection.vectors.size)

upsertPoints(name, points, levels) ==
    LET error == UpsertError(name, points)
    IN IF error # ""
       THEN /\ last' = Call("upsertPoints", name, points, FALSE, error)
            /\ UNCHANGED <<metaFile, pointsFile, hnswFile, indexCache, sinceCreate>>
       ELSE /\ pointsFile' = [pointsFile EXCEPT ![name] =
                   [lines |-> (IF @ = NoFile THEN <<>> ELSE @.lines)
                                 \o [i \in 1..Len(points) |-> PointLine(points[i])]]]
            /\ indexCache' = [indexCache EXCEPT ![name] =
                   IF @ = NoCache THEN @
                   ELSE [CacheInsertAll(@, points, levels, 1) EXCEPT !.dirty = TRUE]]
            /\ last' = Call("upsertPoints", name, points, TRUE, <<>>)
            /\ sinceCreate' = [sinceCreate EXCEPT ![name] = @ \cup {points[i].id : i \in 1..Len(points)}]
            /\ UNCHANGED <<metaFile, hnswFile>>

query(name, queryVector, limit, scoreThreshold, levels) ==
    LET collection == getCollection(name)
        args == <<queryVector, limit, scoreThreshold>>
    IN IF collection = Null
       THEN /\ last' = Call("query", name, args, FALSE, "Collection not found")
            /\ UNCHANGED <<metaFile, pointsFile, hnswFile, indexCache, sinceCreate>>
       ELSE IF \/ Len(queryVector) # collection.vectors.size
               \/ \E k \in 1..Len(queryVector) : ~IsFinite(queryVector[k])
       THEN /\ last' = Call("query", name, args, FALSE, "Query vector must contain finite numbers")
            /\ UNCHANGED <<metaFile, pointsFile, hnswFile, indexCache, sinceCreate>>
       ELSE LET Answer(cache) ==
                    /\ indexCache' = [indexCache EXCEPT ![name] = cache]
                    /\ last' = Call("query", name, args, TRUE,
                                    queryWithHnsw(cache, queryVector, Max(1, limit), scoreThreshold))
                    /\ UNCHANGED <<metaFile, pointsFile, hnswFile, sinceCreate>>
            IN Answer(ensureIndex(name, loadLatestPoints(name), levels))

\* Store.persistHnswIndex(name, index) for a cached index
persistHnswIndex(name, cache) ==
    /\ hnswFile' = [hnswFile EXCEPT ![name] = HnswSerialize(cache.index)]
    /\ indexCache' = [indexCache EXCEPT ![name] = [cache EXCEPT !.dirty = FALSE]]

\* Store.compactCollection.  As history, `args` of the call keeps the number
\* of lines the log had when it was read.
compactCollection(name, levels) ==
    IF getCollection(name) = Null
    THEN /\ last' = Call("compactCollection", name, <<>>, FALSE, "Collection not found")
         /\ UNCHANGED <<metaFile, pointsFile, hnswFile, indexCache, sinceCreate>>
    ELSE LET Compact(points) ==
                 \* writeFile(tmp) then rename(tmp, points.jsonl)
                 /\ pointsFile' = [pointsFile EXCEPT ![name] =
                        [lines |-> [i \in 1..Len(points.order) |-> points.at[points.order[i]]]]]
                 /\ persistHnswIndex(name, ensureIndex(name, points, levels))
                 /\ last' = Call("compactCollection", name, <<LogLength(name)>>, TRUE,
                                 MapSize(points))
                 /\ UNCHANGED <<metaFile, sinceCreate>>
         IN Compact(loadLatestPoints(name))

\* Store.persistAllIndexes: every dirty cached index is written
persistAllIndexes ==
    /\ \E n \in CollectionNames : indexCache[n] # NoCache /\ indexCache[n].dirty
    /\ hnswFile' = [n \in CollectionNames |->
           IF indexCache[n] # NoCache /\ indexCache[n].dirty
           THEN HnswSerialize(indexCache[n].index) ELSE hnswFile[n]]
    /\ indexCache' = [n \in CollectionNames |->
           IF indexCache[n] # NoCache THEN [indexCache[n] EXCEPT !.dirty = FALSE]
           ELSE NoCache]
    /\ last' = Call("persistAllIndexes", "", <<>>, TRUE, <<>>)
    /\ UNCHANGED <<metaFile, pointsFile, sinceCreate>>

\* the client is between calls
Idle == Call("idle", "", <<>>, TRUE, <<>>)

\* the levels randomLevel() may return for the ids of `points`, when the
\* index of `name` has to be built
BuildLevels(name, points) ==
    IF indexCache[name] = NoCache
    THEN [Range(points.order) -> 0..MaxLevel]
    ELSE {<<>>}

LogStoreCreate ==
    /\ last = Idle
    /\ StoreCreate
    /\ UNCHANGED <<sqlVars, asyncVars, auxVars>>

LogCreateCollection ==
    /\ last = Idle
    /\ \E name \in CollectionNames, size \in SizeInputs, distance \in DistanceInputs :
           createCollection(name, size, distance)
    /\ UNCHANGED <<sqlVars, asyncVars, auxVars>>

LogDeleteCollection ==
    /\ last = Idle
    /\ \E name \in CollectionNames : deleteCollection(name)
    /\ UNCHANGED <<sqlVars, asyncVars, auxVars>>

LogUpsertPoints ==
    /\ last = Idle
    /\ \E name \in CollectionNames, points \in LogBatches :
          \E levels \in (IF indexCache[name] = NoCache
                         THEN {[i \in 1..Len(points) |-> 0]}
                         ELSE [1..Len(points) -> 0..MaxLevel]) :
              /\ UpsertError(name, points) = "" => LogLength(name) + Len(points) <= MaxLog
              /\ upsertPoints(name, points, levels)
    /\ UNCHANGED <<sqlVars, asyncVars, auxVars>>

LogQuery ==
    /\ last = Idle
    /\ \E name \in CollectionNames, q \in QueryVectors, limit \in LimitInputs,
          th \in ThresholdInputs :
          \E levels \in BuildLevels(name, loadLatestPoints(name)) :
              query(name, q, limit, th, levels)
    /\ UNCHANGED <<sqlVars, asyncVars, auxVars>>

LogCompactCollection ==
    /\ last = Idle
    /\ \E name \in CollectionNames :
          \E levels \in BuildLevels(name, loadLatestPoints(name)) :
              compactCollection(name, levels)
    /\ UNCHANGED <<sqlVars, asyncVars, auxVars>>

LogPersistAllIndexes ==
    /\ last = Idle
    /\ persistAllIndexes
    /\ UNCHANGED <<sqlVars, asyncVars, auxVars>>

\* the caller takes the outcome of its call
LogReturn ==
    /\ last # Idle
    /\ last' = Idle
    /\ UNCHANGED <<metaFile, pointsFile, hnswFile, indexCache, sinceCreate>>
    /\ UNCHANGED <<sqlVars, asyncVars, auxVars>>

(***************************************************************************)
(* JSON values as the HTTP adapter sees them (qdrant-http.ts)              *)
(***************************************************************************)
JArr(a) == [t |-> "array", a |-> a]

\* String(value)
String(v) ==
    CASE v.t = "string" -> v.s
      [] v.t = "number" -> v.s
      [] v.t = "null" -> "null"
      [] v.t = "undefined" -> "undefined"
      [] v.t = "array" -> "[array]"
      [] v.t = "object" -> "[object Object]"

\* the truthiness of a value (`if (value)`, `a && b`)
Truthy(v) ==
    /\ v.t \notin {"undefined", "null"}
    /\ ~(v.t = "string" /\ v.s = "")
    /\ ~(v.t = "number" /\ v.s = "0")

\* obj[key], undefined when obj has no such property
Get(obj, key) ==
    IF obj.t = "object" /\ key \in DOMAIN obj.f THEN obj.f[key] ELSE JUndefined

\* keyPath.split(".") on the key paths of the model
split(keyPath) ==
    CASE keyPath = "meta.path" -> <<"meta", "path">>
      [] OTHER -> <<keyPath>>

\* the loop of getNestedValue over the keys of the path
RECURSIVE NestedLoop(_, _, _)
NestedLoop(value, keys, i) ==
    IF i > Len(keys) THEN value
    ELSE IF Truthy(value) /\ value.t \in {"object", "array"} /\ Get(value, keys[i]) # JUndefined
         THEN NestedLoop(Get(value, keys[i]), keys, i + 1)
         ELSE JUndefined

getNestedValue(obj, keyPath) == NestedLoop(obj, split(keyPath.s), 1)

\* a `must` loop that is content with one condition that holds
MustLoopAny(p, conditions, i) ==
    \E c \in i..Len(conditions) :
        /\ Truthy(Get(conditions[c], "key")) /\ Truthy(Get(conditions[c], "match"))
        /\ getNestedValue(p, Get(conditions[c], "key")) # JUndefined
        /\ String(getNestedValue(p, Get(conditions[c], "key")))
               = String(Get(Get(conditions[c], "match"), "value"))

\* the `for (const condition of filter.must)` loop of filterFn
RECURSIVE MustLoop(_, _, _)
MustLoop(p, conditions, i) ==
    IF i > Len(conditions) THEN TRUE
    ELSE LET condition == conditions[i] IN
         IF Truthy(Get(condition, "key")) /\ Truthy(Get(condition, "match"))
         THEN LET Check(value) ==
                      IF value = JUndefined THEN FALSE
                      ELSE IF /\ Get(Get(condition, "match"), "value") # JUndefined
                              /\ String(value) # String(Get(Get(condition, "match"), "value"))
                           THEN FALSE
                           ELSE MustLoop(p, conditions, i + 1)
              IN Check(getNestedValue(p, Get(condition, "key")))
         ELSE MustLoop(p, conditions, i + 1)

\* a {key, match} pair whose value is present in the payload and equal to
\* match.value as strings (the test of `should` and of the legacy format)
ValueMatches(p, condition) ==
    LET Check(value) ==
            /\ value # JUndefined
            /\ Get(Get(condition, "match"), "value") # JUndefined
            /\ String(value) = String(Get(Get(condition, "match"), "value"))
    IN Check(getNestedValue(p, Get(condition, "key")))

\* the `for (const condition of filter.should)` loop of filterFn
RECURSIVE ShouldLoop(_, _, _)
ShouldLoop(p, conditions, i) ==
    IF i > Len(conditions) THEN FALSE
    ELSE IF /\ Truthy(Get(conditions[i], "key")) /\ Truthy(Get(conditions[i], "match"))
            /\ ValueMatches(p, conditions[i])
         THEN TRUE
         ELSE ShouldLoop(p, conditions, i + 1)

\* filterFn(payload) of the points/delete handler, for the request's filter
filterFn(filter, payload) ==
    IF ~Truthy(payload) \/ payload.t \notin {"object", "array"} THEN FALSE
    ELSE IF Get(filter, "must").t = "array" THEN MustLoop(payload, Get(filter, "must").a, 1)
    ELSE IF Get(filter, "should").t = "array" THEN ShouldLoop(payload, Get(filter, "should").a, 1)
    ELSE IF Truthy(Get(filter, "key")) /\ Truthy(Get(filter, "match"))
         THEN ValueMatches(payload, filter)
    ELSE FALSE

(***************************************************************************)
(* The SQLite Store (src/fake-qdrant/store.ts)                             *)
(*                                                                         *)
(* A database file is [size, distance, vectors, payloads]: `vectors` maps  *)
(* point_id (TEXT) to the embedding, `payloads` maps point_id to the       *)
(* payload TEXT or to SQL NULL.                                            *)
(***************************************************************************)
SqlNull == [t |-> "NULL"]

\* JSON.stringify(value) as a TEXT value
Stringify(v) == [t |-> "text", json |-> v]

\* row.payload ? JSON.parse(row.payload) : null
ParsePayload(text) == IF text = SqlNull THEN JNull ELSE text.json

\* the decimal numerals n with String(Number(n)) === n
CanonicalNumerals == {"0", "1", "2", "3", "4", "5", "6", "7", "8", "9"}

\* the id query() reports for a point_id: a number when the text reads as one
RowId(point_id) ==
    IF point_id \in CanonicalNumerals THEN NumId(point_id) ELSE StrId(point_id)

Without(f, key) == [k \in DOMAIN f \ {key} |-> f[k]]

\* Store.getDb: the database of the collection, null when there is no file
getDb(name) ==
    IF name \in dbs THEN dbFiles[name]
    ELSE IF dbFiles[name] = NoFile THEN Null
    ELSE dbFiles[name]

\* a getDb that keeps a handle even when there is no file to open
OpenedAlways(name) == dbs \cup {name}

\* Store.dbs after getDb(name)
Opened(name) == IF getDb(name) = Null THEN dbs ELSE dbs \cup {name}

\* Store.getCollection: null when there is no database, and when the
\* database holds no meta row (the statement throws or finds nothing)
SqlGetCollection(name) ==
    IF getDb(name) = Null \/ getDb(name) = NoFile THEN Null
    ELSE [name |-> name,
          vectors |-> [size |-> getDb(name).size, distance |-> getDb(name).distance]]

\* Store.createDb on the file as it is: the tables are created IF NOT EXISTS
createDb(file, dimension) ==
    IF file = NoFile
    THEN [size |-> dimension, distance |-> "Cosine", vectors |-> <<>>, payloads |-> <<>>]
    ELSE [file EXCEPT !.size = dimension, !.distance = "Cosine"]

\* the validation loop of Store.upsertPoints: "" when every point passes
RECURSIVE SqlUpsertValidation(_, _, _)
SqlUpsertValidation(points, i, dimension) ==
    IF i > Len(points) THEN ""
    ELSE IF ~isValidPointId(points[i].id) THEN "Point id must be a string or number"
    ELSE IF \/ Len(points[i].vector) # dimension
            \/ \E k \in 1..Len(points[i].vector) : ~IsFinite(points[i].vector[k])
         THEN "Vector must contain finite numbers"
    ELSE SqlUpsertValidation(points, i + 1, dimension)

\* the `upsert` transaction of Store.upsertPoints
RECURSIVE UpsertTransaction(_, _, _)
UpsertTransaction(db, pts, i) ==
    IF i > Len(pts) THEN db
    ELSE UpsertTransaction(
             [db EXCEPT
                 !.vectors = (String(pts[i].id) :> pts[i].vector) @@ Without(@, String(pts[i].id)),
                 !.payloads = (String(pts[i].id) :>
                                   IF pts[i].payload # JUndefined
                                   THEN Stringify(pts[i].payload) ELSE SqlNull) @@ @],
             pts, i + 1)

\* the rows `embedding MATCH ? AND k = ? ORDER BY distance ASC` may return:
\* the (at most k) nearest rows, rows at equal distance in either order.
\* distance is 1 - cos, so score = 1 - distance is the cosine.
KnnRows(db, queryVector, k) ==
    LET keys == DOMAIN db.vectors
        n    == Cardinality(keys)
        Score(key) == cosineSimilarity(queryVector, db.vectors[key])
    IN { Slice(rows, k) : rows \in
           { r \in [1..n -> keys] :
               /\ \A i, j \in 1..n : i # j => r[i] # r[j]
               /\ \A i, j \in 1..n : i < j => ~ScoreLT(Score(r[i]), Score(r[j])) } }

\* the `for (const row of rows)` loop of Store.query
RECURSIVE QueryRows(_, _, _, _, _, _, _)
QueryRows(db, queryVector, rows, i, limit, scoreThreshold, results) ==
    IF i > Len(rows) THEN results
    ELSE LET Push(r1) ==
                 IF Len(r1) >= limit THEN r1
                 ELSE QueryRows(db, queryVector, rows, i + 1, limit, scoreThreshold, r1)
             Row(score) ==
                 IF ScoreGE(score, scoreThreshold)
                 THEN Push(Append(results,
                                  [id |-> RowId(rows[i]), score |-> score,
                                   payload |-> IF rows[i] \in DOMAIN db.payloads
                                               THEN ParsePayload(db.payloads[rows[i]])
                                               ELSE JNull]))
                 ELSE QueryRows(db, queryVector, rows, i + 1, limit, scoreThreshold, results)
         IN Row(cosineSimilarity(queryVector, db.vectors[rows[i]]))

\* the `deleteById` transaction: acc = [db, deletedCount]
RECURSIVE DeleteById(_, _, _)
DeleteById(acc, ids, i) ==
    IF i > Len(ids) THEN acc
    ELSE DeleteById(
             [db |-> [acc.db EXCEPT !.vectors = Without(@, String(ids[i])),
                                    !.payloads = Without(@, String(ids[i]))],
              deletedCount |-> acc.deletedCount +
                               (IF String(ids[i]) \in DOMAIN acc.db.vectors THEN 1 ELSE 0)],
             ids, i + 1)

\* the rows of `payloads` the filter accepts, then the `deleteByFilter`
\* transaction over them
DeleteByFilter(acc, filter) ==
    LET idsToDelete == {key \in DOMAIN acc.db.payloads :
                           filterFn(filter, ParsePayload(acc.db.payloads[key]))}
    IN [db |-> [acc.db EXCEPT !.vectors = [k \in DOMAIN @ \ idsToDelete |-> @[k]],
                              !.payloads = [k \in DOMAIN @ \ idsToDelete |-> @[k]]],
        deletedCount |-> acc.deletedCount + Cardinality(idsToDelete \cap DOMAIN acc.db.vectors)]

\* Store.deletePoints(name, pointIds, filter) on an existing database: the
\* database and the count it returns.  `filter` is the request's filter
\* object, for which the adapter passes filterFn; JUndefined is no filter.
deletePoints(db, pointIds, filter) ==
    LET ByFilter(acc) == IF filter # JUndefined THEN DeleteByFilter(acc, filter) ELSE acc
    IN ByFilter(IF pointIds # JUndefined /\ Len(pointIds.a) > 0
                THEN DeleteById([db |-> db, deletedCount |-> 0], pointIds.a, 1)
                ELSE [db |-> db, deletedCount |-> 0])

(***************************************************************************)
(* Inputs of the SQLite store and of the HTTP adapter                      *)
(***************************************************************************)
SA == StrId("a")

PayloadNested == JObj("meta" :> PayloadA)

PayloadBoth == JObj("path" :> JStr("/a") @@ "meta" :> PayloadA)

\* points offered over HTTP: the ids 1, "1" and "a"; payloads that satisfy
\* the conditions on `path`, on `meta.path`, on both or on neither; one
\* vector of length 2, one point without a usable id, one non-finite entry
SqlPoints ==
    { Point(N1, <<1>>, JUndefined),      Point(N1, <<0 - 1>>, PayloadA),
      Point(S1, <<1>>, PayloadNested),   Point(SA, <<1>>, PayloadBoth),
      Point(SA, <<0 - 1>>, PayloadB),    Point(N1, <<1, 0>>, PayloadA),
      Point(NullId, <<1>>, JUndefined),  Point(S1, <<NonFinite>>, JUndefined) }

SqlBatches == SeqsUpTo(SqlPoints, MaxBatch)

Condition(key, value) == JObj("key" :> JStr(key) @@ "match" :> JObj("value" :> JStr(value)))

CondPath == Condition("path", "/a")

CondMetaPath == Condition("meta.path", "/a")

\* the `points` member of a delete body; JUndefined when it is absent
PointIdInputs ==
    { JUndefined, JArr(<<>>), JArr(<<N1>>), JArr(<<SA>>), JArr(<<S1, SA>>) }

\* the `filter` member of a delete body; JUndefined when it is absent
FilterInputs ==
    { JUndefined,
      JObj("must" :> JArr(<<CondPath>>)),
      JObj("must" :> JArr(<<CondPath, CondMetaPath>>)),
      JObj("should" :> JArr(<<CondPath, CondMetaPath>>)),
      JObj("must" :> JArr(<<>>)),
      JObj("must" :> JArr(<<JObj("key" :> JStr("path"))>>)),
      JObj("should" :> JArr(<<JObj("match" :> JObj("value" :> JStr("/a")))>>)),
      JObj("key" :> JStr("path") @@ "match" :> JObj("value" :> JStr("/a"))),
      JObj(<<>>) }

SqlQueryVectors == {<<1>>, <<1, 0>>}

(***************************************************************************)
(* The HTTP adapter over the SQLite Store (qdrant-http.ts, handleRequest)  *)
(***************************************************************************)
Http(op, name, body, status, result) ==
    [op |-> op, name |-> name, body |-> body, status |-> status, result |-> result]

\* the history of a collection that was created anew or dropped
Forget(name) ==
    /\ upserted' = [upserted EXCEPT ![name] = <<>>]
    /\ removed' = [removed EXCEPT ![name] = {}]

RECURSIVE Remember(_, _, _)
Remember(hist, points, i) ==
    IF i > Len(points) THEN hist
    ELSE Remember((points[i].id :> OrNull(points[i].payload)) @@ hist, points, i + 1)

Rejected(op, name, body, error) ==
    /\ http' = Http(op, name, body, 400, error)
    /\ UNCHANGED <<dbFiles, upserted, removed>>

\* new Store(baseDir) over an existing data directory: no database is open
SqlStoreCreate ==
    /\ dbs' = {}
    /\ UNCHANGED <<dbFiles, upserted, removed, http>>

\* GET /collections/{name}: Store.getCollection, 404 when it returns null
GetCollection(name) ==
    /\ http' = IF SqlGetCollection(name) = Null
               THEN Http("GET collection", name, <<>>, 404, "collection not found")
               ELSE Http("GET collection", name, <<>>, 200, SqlGetCollection(name))
    /\ dbs' = Opened(name)
    /\ UNCHANGED <<dbFiles, upserted, removed>>

\* a createCollection that drops the existing database before it validates
PutCollectionDropFirst(name, size, distance) ==
    IF size <= 0 \/ normalizeDistance(distance) = "throw"
    THEN /\ http' = Http("PUT collection", name, <<size, distance>>, 400, "rejected")
         /\ dbFiles' = [dbFiles EXCEPT ![name] = NoFile]
         /\ dbs' = dbs \ {name}
         /\ UNCHANGED <<upserted, removed>>
    ELSE /\ dbFiles' = [dbFiles EXCEPT ![name] = createDb(NoFile, size)]
         /\ dbs' = dbs \cup {name}
         /\ Forget(name)
         /\ http' = Http("PUT collection", name, <<size, distance>>, 200, TRUE)

\* PUT /collections/{name}: Store.createCollection drops the database file
\* (deleteCollection) and creates a new one (createDb)
PutCollection(name, size, distance) ==
    IF size <= 0
    THEN /\ Rejected("PUT collection", name, <<size, distance>>,
                     "Collection size must be a positive integer")
         /\ UNCHANGED dbs
    ELSE IF normalizeDistance(distance) = "throw"
    THEN /\ Rejected("PUT collection", name, <<size, distance>>, "Unsupported distance metric")
         /\ UNCHANGED dbs
    ELSE /\ dbFiles' = [dbFiles EXCEPT ![name] = createDb(NoFile, size)]
         /\ dbs' = dbs \cup {name}
         /\ Forget(name)
         /\ http' = Http("PUT collection", name, <<size, distance>>, 200, TRUE)

\* DELETE /collections/{name}: Store.deleteCollection
DeleteCollection(name) ==
    /\ dbFiles' = [dbFiles EXCEPT ![name] = NoFile]
    /\ dbs' = dbs \ {name}
    /\ Forget(name)
    /\ http' = Http("DELETE collection", name, <<>>, 200, TRUE)

\* PUT /collections/{name}/points: the adapter's checks, then Store.upsertPoints
PutPoints(name, points) ==
    LET error == IF \E i \in 1..Len(points) : \E k \in 1..Len(points[i].vector) :
                        ~IsFinite(points[i].vector[k])
                 THEN "vectors must contain finite numbers"
                 ELSE IF SqlGetCollection(name) = Null THEN "Collection not found"
                 ELSE SqlUpsertValidation(points, 1, SqlGetCollection(name).vectors.size)
    IN IF error # ""
       THEN /\ Rejected("PUT points", name, points, error)
            /\ dbs' = IF error = "vectors must contain finite numbers" THEN dbs ELSE Opened(name)
       ELSE /\ dbFiles' = [dbFiles EXCEPT ![name] = UpsertTransaction(getDb(name), points, 1)]
            /\ dbs' = Opened(name)
            /\ upserted' = [upserted EXCEPT ![name] = Remember(@, points, 1)]
            /\ removed' = [removed EXCEPT ![name] = @ \ {points[i].id : i \in 1..Len(points)}]
            /\ http' = Http("PUT points", name, points, 200, "completed")

\* POST /collections/{name}/points/query: Store.query
PostQuery(name, vector, limit, scoreThreshold) ==
    LET body == <<vector, limit, scoreThreshold>> IN
    IF SqlGetCollection(name) = Null
    THEN /\ Rejected("POST query", name, body, "Collection not found")
         /\ dbs' = Opened(name)
    ELSE IF \/ Len(vector) # SqlGetCollection(name).vectors.size
            \/ \E k \in 1..Len(vector) : ~IsFinite(vector[k])
    THEN /\ Rejected("POST query", name, body, "Query vector must contain finite numbers")
         /\ dbs' = Opened(name)
    ELSE /\ \E rows \in KnnRows(getDb(name), vector, Max(Max(1, limit) * 2, 50)) :
               http' = Http("POST query", name, body, 200,
                            QueryRows(getDb(name), vector, rows, 1, Max(1, limit),
                                      scoreThreshold, <<>>))
         /\ dbs' = Opened(name)
         /\ UNCHANGED <<dbFiles, upserted, removed>>

\* a points/delete handler that answers 200 to a body with neither member
PostDeleteLenient(name, pointIds, filter) ==
    /\ http' = Http("POST delete", name, [points |-> pointIds, filter |-> filter], 200, "completed")
    /\ dbFiles' = [dbFiles EXCEPT ![name] =
           IF getDb(name) = Null THEN @
           ELSE IF pointIds.t = "array" /\ Len(pointIds.a) > 0
                THEN deletePoints(getDb(name), pointIds, JUndefined).db
           ELSE IF Truthy(filter) THEN deletePoints(getDb(name), JUndefined, filter).db
           ELSE @]
    /\ dbs' = Opened(name)
    /\ removed' = [removed EXCEPT ![name] =
           IF getDb(name) # Null /\ pointIds.t = "array" THEN @ \cup Range(pointIds.a) ELSE @]
    /\ UNCHANGED upserted

\* POST /collections/{name}/points/delete; body = {points, filter}
PostDelete(name, pointIds, filter) ==
    LET body == [points |-> pointIds, filter |-> filter] IN
    IF SqlGetCollection(name) = Null
    THEN /\ http' = Http("POST delete", name, body, 200, "completed")
         /\ dbs' = Opened(name)
         /\ UNCHANGED <<dbFiles, upserted, removed>>
    ELSE IF pointIds.t = "array" /\ Len(pointIds.a) > 0
    THEN /\ dbFiles' = [dbFiles EXCEPT ![name] = deletePoints(getDb(name), pointIds, JUndefined).db]
         /\ dbs' = Opened(name)
         /\ removed' = [removed EXCEPT ![name] = @ \cup Range(pointIds.a)]
         /\ http' = Http("POST delete", name, body, 200, "completed")
         /\ UNCHANGED upserted
    ELSE IF Truthy(filter)
    THEN /\ dbFiles' = [dbFiles EXCEPT ![name] = deletePoints(getDb(name), JUndefined, filter).db]
         /\ dbs' = Opened(name)
         /\ http' = Http("POST delete", name, body, 200, "completed")
         /\ UNCHANGED <<upserted, removed>>
    ELSE /\ Rejected("POST delete", name, body, "missing points[] or filter")
         /\ dbs' = Opened(name)

\* POST /collections/{name}/compact: Store.compactCollection (VACUUM, COUNT)
PostCompact(name) ==
    IF SqlGetCollection(name) = Null
    THEN /\ Rejected("POST compact", name, <<>>, "Collection not found")
         /\ dbs' = Opened(name)
    ELSE /\ http' = Http("POST compact", name, <<>>, 200,
                         [unique_points |-> Cardinality(DOMAIN getDb(name).vectors)])
         /\ dbs' = Opened(name)
         /\ UNCHANGED <<dbFiles, upserted, removed>>

\* Store.deletePoints(name, pointIds, filter) called on the Store itself;
\* the result is the count it returns
StoreDeletePoints(name, pointIds, filter) ==
    LET body == [points |-> pointIds, filter |-> filter] IN
    IF getDb(name) = Null
    THEN /\ http' = Http("deletePoints", name, body, 0, 0)
         /\ UNCHANGED <<dbFiles, dbs, upserted, removed>>
    ELSE LET Done(out) ==
                 /\ dbFiles' = [dbFiles EXCEPT ![name] = out.db]
                 /\ http' = Http("deletePoints", name, body, 0, out.deletedCount)
         IN /\ Done(deletePoints(getDb(name), pointIds, filter))
            /\ dbs' = Opened(name)
            /\ removed' = [removed EXCEPT ![name] =
                              IF pointIds # JUndefined THEN @ \cup Range(pointIds.a) ELSE @]
            /\ UNCHANGED upserted

\* the state of everything but the stand-alone index
InitStores ==
    /\ metaFile = [n \in CollectionNames |-> NoFile]
    /\ pointsFile = [n \in CollectionNames |-> NoFile]
    /\ hnswFile = [n \in CollectionNames |-> NoFile]
    /\ indexCache = [n \in CollectionNames |-> NoCache]
    /\ last = Idle
    /\ sinceCreate = [n \in CollectionNames |-> {}]
    /\ dbFiles = [n \in CollectionNames |-> NoFile]
    /\ dbs = {}
    /\ upserted = [n \in CollectionNames |-> <<>>]
    /\ removed = [n \in CollectionNames |-> {}]
    /\ http = Idle
    /\ tmpFile = [n \in CollectionNames |-> NoFile]
    /\ compacting = NoCall
    /\ upserting = NoCall
    /\ acked = [n \in CollectionNames |-> <<>>]
    /\ hcall = Idle
    /\ inflight = [s \in Slots |-> NoCall]

Init ==
    /\ InitStores
    /\ hnsw = NewIndex(DEFAULT_HNSW_CONFIG)

(***************************************************************************)
(* The log store with three points of two vector lengths, upserted one at  *)
(* a time, and queries that rank them                                      *)
(***************************************************************************)
MaxRankLog == 3    \* lines in points.jsonl

RankPoints ==
    { Point(N1, <<1>>, JUndefined), Point(N2, <<1, 1>>, PayloadA), Point(S1, <<1, 0>>, PayloadB) }

RankSizes == {1, 2}

RankCreateCollection ==
    /\ last = Idle
    /\ \E name \in CollectionNames, size \in RankSizes : createCollection(name, size, "Cosine")
    /\ UNCHANGED <<sqlVars, asyncVars, auxVars>>

RankUpsertPoints ==
    /\ last = Idle
    /\ \E name \in CollectionNames, point \in RankPoints, level \in 0..MaxLevel :
          /\ LogLength(name) < MaxRankLog
          /\ upsertPoints(name, <<point>>, <<level>>)
    /\ UNCHANGED <<sqlVars, asyncVars, auxVars>>

RankQuery ==
    /\ last = Idle
    /\ \E name \in CollectionNames, q \in {<<1>>, <<1, 0>>}, limit \in LimitInputs,
          th \in ThresholdInputs :
          \E levels \in BuildLevels(name, loadLatestPoints(name)) :
              query(name, q, limit, th, levels)
    /\ UNCHANGED <<sqlVars, asyncVars, auxVars>>

NextRank ==
    \/ RankCreateCollection
    \/ RankUpsertPoints
    \/ RankQuery
    \/ LogReturn

SpecRank == Init /\ [][NextRank]_vars

(***************************************************************************)
(* The log store with compactCollection and upsertPoints taken one I/O     *)
(* step at a time.  A call runs from one `await` of a file operation to    *)
(* the next without interruption; between two of its steps the steps of    *)
(* the other call may run, and the process may stop.                       *)
(***************************************************************************)
MaxAsyncLog == 2   \* lines in points.jsonl

AsyncPoints ==
    { Point(N1, <<1>>, JUndefined), Point(N1, <<0 - 1>>, PayloadA), Point(S1, <<1>>, PayloadA) }

\* the lines compactCollection writes: Array.from(points.values())
CompactedLines(points) == [i \in 1..Len(points.order) |-> points.at[points.order[i]]]

\* a compaction that writes the compacted lines over points.jsonl itself
WriteInPlace(name, lines) ==
    /\ pointsFile' = [pointsFile EXCEPT ![name] = [lines |-> lines]]
    /\ UNCHANGED tmpFile

\* fs.writeFile(tempPath, ...) having written `lines`
WriteTemp(name, lines) ==
    /\ tmpFile' = [tmpFile EXCEPT ![name] = [lines |-> lines]]
    /\ UNCHANGED pointsFile

\* createCollection, once per collection, while no call is in flight
AsyncCreateCollection ==
    /\ compacting = NoCall /\ upserting = NoCall
    /\ \E name \in CollectionNames :
          /\ metaFile[name] = NoFile
          /\ createCollection(name, 1, "Cosine")
    /\ UNCHANGED <<sqlVars, asyncVars, auxVars>>

\* compactCollection is called: getCollection finds the collection
CompactStart ==
    /\ compacting = NoCall
    /\ \E name \in CollectionNames :
          /\ getCollection(name) # Null
          /\ compacting' = [pc |-> "load", name |-> name, points |-> EmptyMap]
    /\ UNCHANGED <<logVars, sqlVars, auxVars, tmpFile, upserting, acked>>

\* loadLatestPoints: points.jsonl is read and replayed
CompactLoad ==
    /\ compacting.pc = "load"
    /\ compacting' = [compacting EXCEPT !.pc = "write",
                                        !.points = loadLatestPoints(compacting.name)]
    /\ UNCHANGED <<logVars, sqlVars, auxVars, tmpFile, upserting, acked>>

\* fs.writeFile(tempPath, compactedLines)
CompactWriteTemp ==
    /\ compacting.pc = "write"
    /\ WriteTemp(compacting.name, CompactedLines(compacting.points))
    /\ compacting' = [compacting EXCEPT !.pc = "rename"]
    /\ UNCHANGED <<metaFile, hnswFile, indexCache, last, sinceCreate, sqlVars, auxVars, upserting, acked>>

\* fs.rename(tempPath, pointsPath)
CompactRename ==
    /\ compacting.pc = "rename"
    /\ pointsFile' = [pointsFile EXCEPT ![compacting.name] = tmpFile[compacting.name]]
    /\ tmpFile' = [tmpFile EXCEPT ![compacting.name] = NoFile]
    /\ compacting' = [compacting EXCEPT !.pc = "index"]
    /\ UNCHANGED <<metaFile, hnswFile, indexCache, last, sinceCreate, sqlVars, auxVars, upserting, acked>>

\* ensureIndex(name, points): the cached index, or one loaded or built
CompactEnsureIndex ==
    /\ compacting.pc = "index"
    /\ \E levels \in BuildLevels(compacting.name, compacting.points) :
          indexCache' = [indexCache EXCEPT ![compacting.name] =
                            ensureIndex(compacting.name, compacting.points, levels)]
    /\ compacting' = [compacting EXCEPT !.pc = "persist"]
    /\ UNCHANGED <<metaFile, pointsFile, hnswFile, last, sinceCreate, sqlVars, auxVars,
                   tmpFile, upserting, acked>>

\* persistHnswIndex: the index is serialized and hnsw.json written
CompactPersist ==
    /\ compacting.pc = "persist"
    /\ hnswFile' = [hnswFile EXCEPT ![compacting.name] =
                        HnswSerialize(indexCache[compacting.name].index)]
    /\ compacting' = [compacting EXCEPT !.pc = "clean"]
    /\ UNCHANGED <<metaFile, pointsFile, indexCache, last, sinceCreate, sqlVars, auxVars,
                   tmpFile, upserting, acked>>

\* persistHnswIndex after its write: cache.dirty = false; the call returns
CompactReturn ==
    /\ compacting.pc = "clean"
    /\ indexCache' = [indexCache EXCEPT ![compacting.name] = [@ EXCEPT !.dirty = FALSE]]
    /\ compacting' = NoCall
    /\ UNCHANGED <<metaFile, pointsFile, hnswFile, last, sinceCreate, sqlVars, auxVars,
                   tmpFile, upserting, acked>>

\* upsertPoints is called with one valid point: getCollection, validation
UpsertStart ==
    /\ upserting = NoCall
    /\ \E name \in CollectionNames, point \in AsyncPoints :
          /\ getCollection(name) # Null
          /\ UpsertValidation(<<point>>, 1, getCollection(name).vectors.size) = ""
          /\ LogLength(name) < MaxAsyncLog
          /\ upserting' = [pc |-> "append", name |-> name, points |-> <<point>>]
    /\ UNCHANGED <<logVars, sqlVars, auxVars, tmpFile, compacting, acked>>

\* fs.appendFile(pointsPath, lines)
UpsertAppend ==
    /\ upserting.pc = "append"
    /\ pointsFile' = [pointsFile EXCEPT ![upserting.name] =
           [lines |-> (IF @ = NoFile THEN <<>> ELSE @.lines)
                         \o [i \in 1..Len(upserting.points) |-> PointLine(upserting.points[i])]]]
    /\ upserting' = [upserting EXCEPT !.pc = "cache"]
    /\ UNCHANGED <<metaFile, hnswFile, indexCache, last, sinceCreate, sqlVars, auxVars,
                   tmpFile, compacting, acked>>

\* the cached index is updated and upsertPoints returns
UpsertReturn ==
    /\ upserting.pc = "cache"
    /\ \E levels \in [1..Len(upserting.points) -> 0..MaxLevel] :
          indexCache' = [indexCache EXCEPT ![upserting.name] =
              IF @ = NoCache THEN @
              ELSE [CacheInsertAll(@, upserting.points, levels, 1) EXCEPT !.dirty = TRUE]]
    /\ acked' = [acked EXCEPT ![upserting.name] =
                     (upserting.points[1].id :> PointLine(upserting.points[1])) @@ @]
    /\ upserting' = NoCall
    /\ UNCHANGED <<metaFile, pointsFile, hnswFile, last, sinceCreate, sqlVars, auxVars,
                   tmpFile, compacting>>

\* the prefixes of the lines of a file that was being written
Prefixes(lines) == {SubSeq(lines, 1, k) : k \in 0..Len(lines)}

\* the process stops and a new Store is created over the data directory; a
\* writeFile that was under way leaves a prefix of what it was to write
Crash ==
    /\ compacting # NoCall \/ upserting # NoCall
    /\ IF compacting.pc = "write"
       THEN \/ UNCHANGED <<pointsFile, tmpFile>>
            \/ \E lines \in Prefixes(CompactedLines(compacting.points)) :
                   WriteTemp(compacting.name, lines)
       ELSE UNCHANGED <<pointsFile, tmpFile>>
    /\ compacting' = NoCall
    /\ upserting' = NoCall
    /\ indexCache' = [n \in CollectionNames |-> NoCache]
    /\ UNCHANGED <<metaFile, hnswFile, last, sinceCreate, sqlVars, auxVars, acked>>

NextAsync ==
    \/ AsyncCreateCollection
    \/ CompactStart
    \/ CompactLoad
    \/ CompactWriteTemp
    \/ CompactRename
    \/ CompactEnsureIndex
    \/ CompactPersist
    \/ CompactReturn
    \/ UpsertStart
    \/ UpsertAppend
    \/ UpsertReturn
    \/ Crash

SpecAsync == Init /\ [][NextAsync]_vars

(***************************************************************************)
(* An HNSWIndex on its own: insert, remove, search, and a serialize /      *)
(* deserialize round trip, one call at a time                              *)
(***************************************************************************)
\* the default configuration, and one whose neighbor sets hold one id so
\* that pruneConnections runs on small graphs
HnswConfigs == {DEFAULT_HNSW_CONFIG, [DEFAULT_HNSW_CONFIG EXCEPT !.M = 1, !.Mmax0 = 1]}

HnswIds == {N1, N2, S1}

\* two axes, their diagonal, and the zero vector
HnswVectors == {<<1, 0>>, <<0, 1>>, <<1, 1>>, <<0, 0>>}

\* k of search: as many as the index can hold
HnswK == {Cardinality(HnswIds)}

InitHnsw ==
    /\ InitStores
    /\ hnsw \in {NewIndex(config) : config \in HnswConfigs}

\* index.insert(id, vector); `out` keeps, as history, whether the id was present
HnswInsertCall ==
    /\ hcall = Idle
    /\ \E id \in HnswIds, vector \in HnswVectors, level \in 0..MaxLevel :
           /\ hnsw' = HnswInsert(hnsw, id, vector, level)
           /\ hcall' = Call("insert", "", <<id, vector, level>>, TRUE, IndexHas(hnsw, id))
    /\ UNCHANGED <<logVars, sqlVars, asyncVars, inflight>>

\* index.remove(id); `out` is the boolean it returns, and `args` keeps, as
\* history, whether the id was the entry point
HnswRemoveCall ==
    /\ hcall = Idle
    /\ \E id \in HnswIds :
           /\ hnsw' = HnswRemove(hnsw, id)
           /\ hcall' = Call("remove", "", <<id, hnsw.entryPoint = id>>, TRUE, IndexHas(hnsw, id))
    /\ UNCHANGED <<logVars, sqlVars, asyncVars, inflight>>

\* index.search(queryVector, k)
HnswSearchCall ==
    /\ hcall = Idle
    /\ \E queryVector \in HnswVectors, k \in HnswK :
           hcall' = Call("search", "", <<queryVector, k>>, TRUE,
                         HnswSearch(hnsw, queryVector, k, hnsw.config.efSearch))
    /\ UNCHANGED <<logVars, sqlVars, asyncVars, hnsw, inflight>>

\* HNSWIndex.deserialize(index.serialize()) takes the place of the index
HnswReloadCall ==
    /\ hcall = Idle
    /\ hnsw' = HnswDeserialize(HnswSerialize(hnsw))
    /\ hcall' = Call("deserialize", "", <<>>, TRUE, <<>>)
    /\ UNCHANGED <<logVars, sqlVars, asyncVars, inflight>>

HnswReturn ==
    /\ hcall # Idle
    /\ hcall' = Idle
    /\ UNCHANGED <<logVars, sqlVars, asyncVars, hnsw, inflight>>

NextHnsw ==
    \/ HnswInsertCall
    \/ HnswRemoveCall
    \/ HnswSearchCall
    \/ HnswReloadCall
    \/ HnswReturn

SpecHnsw == InitHnsw /\ [][NextHnsw]_vars

(***************************************************************************)
(* PUT /collections/{name} with the request body: where the vector size is *)
(* read from                                                               *)
(***************************************************************************)
\* a JSON number
SizeNum(n) == [t |-> "number", n |-> n]

\* what a key of the body may hold: nothing, null, a string, 0, 1, 2
SizeValues == {JUndefined, JNull, JStr("2"), SizeNum(0), SizeNum(1), SizeNum(2)}

\* the body, by the four places a size is looked for
Bodies ==
    [vectors_size : SizeValues, vectors_params_size : SizeValues,
     vector_size : SizeValues, dimension : SizeValues]

\* a ?? b
Coalesce(a, b) == IF a = JUndefined \/ a = JNull THEN b ELSE a

\* vectors?.size ?? vectors?.params?.size ?? body?.vector_size ?? body?.dimension
BodySize(body) ==
    Coalesce(Coalesce(Coalesce(body.vectors_size, body.vectors_params_size),
                      body.vector_size),
             body.dimension)

\* PUT /collections/{name}: the size is read from the body and tested with
\* Number.isFinite, then Store.createCollection tests it again
PutCollectionBody(name, body) ==
    LET size == BodySize(body) IN
    IF size.t # "number"
    THEN /\ Rejected("PUT collection", name, body, "missing vector size")
         /\ UNCHANGED dbs
    ELSE IF size.n <= 0
    THEN /\ Rejected("PUT collection", name, body, "Collection size must be a positive integer")
         /\ UNCHANGED dbs
    ELSE /\ dbFiles' = [dbFiles EXCEPT ![name] = createDb(NoFile, size.n)]
         /\ dbs' = dbs \cup {name}
         /\ Forget(name)
         /\ http' = Http("PUT collection", name, body, 200, TRUE)

CreatePutCollection ==
    /\ http = Idle
    /\ \E name \in CollectionNames, body \in Bodies : PutCollectionBody(name, body)
    /\ UNCHANGED <<logVars, asyncVars, auxVars>>

CreateGetCollection ==
    /\ http = Idle
    /\ \E name \in CollectionNames : GetCollection(name)
    /\ UNCHANGED <<logVars, asyncVars, auxVars>>

CreateReturn ==
    /\ http # Idle
    /\ http' = Idle
    /\ UNCHANGED <<dbFiles, dbs, upserted, removed, logVars, asyncVars, auxVars>>

NextCreate ==
    \/ CreatePutCollection
    \/ CreateGetCollection
    \/ CreateReturn

SpecCreate == Init /\ [][NextCreate]_vars

(***************************************************************************)
(* The log + snapshot Store and the SQLite Store side by side: every call  *)
(* is made on both                                                         *)
(***************************************************************************)
MaxBothLog == 2    \* lines in points.jsonl

BothPoints ==
    { Point(N1, <<1>>, JUndefined), Point(S1, <<1>>, PayloadA), Point(N2, <<0 - 1>>, PayloadB) }

BothBatches == SeqsUpTo(BothPoints, MaxBatch) \ {<<>>}

BothCreateCollection ==
    /\ last = Idle /\ http = Idle
    /\ \E name \in CollectionNames, size \in {0, 1} :
           /\ createCollection(name, size, "")
           /\ PutCollection(name, size, "")
    /\ UNCHANGED <<asyncVars, auxVars>>

BothUpsertPoints ==
    /\ last = Idle /\ http = Idle
    /\ \E name \in CollectionNames, points \in BothBatches :
          \E levels \in (IF indexCache[name] = NoCache
                         THEN {[i \in 1..Len(points) |-> 0]}
                         ELSE [1..Len(points) -> 0..MaxLevel]) :
              /\ UpsertError(name, points) = "" => LogLength(name) + Len(points) <= MaxBothLog
              /\ upsertPoints(name, points, levels)
              /\ PutPoints(name, points)
    /\ UNCHANGED <<asyncVars, auxVars>>

\* a query for every point: limit 20, score threshold -1
BothQuery ==
    /\ last = Idle /\ http = Idle
    /\ \E name \in CollectionNames :
          \E levels \in BuildLevels(name, loadLatestPoints(name)) :
              /\ query(name, <<1>>, 20, MkScore(0 - 1, 1), levels)
              /\ PostQuery(name, <<1>>, 20, MkScore(0 - 1, 1))
    /\ UNCHANGED <<asyncVars, auxVars>>

BothCompactCollection ==
    /\ last = Idle /\ http = Idle
    /\ \E name \in CollectionNames :
          \E levels \in BuildLevels(name, loadLatestPoints(name)) :
              /\ compactCollection(name, levels)
              /\ PostCompact(name)
    /\ UNCHANGED <<asyncVars, auxVars>>

BothDeleteCollection ==
    /\ last = Idle /\ http = Idle
    /\ \E name \in CollectionNames :
           /\ deleteCollection(name)
           /\ DeleteCollection(name)
    /\ UNCHANGED <<asyncVars, auxVars>>

BothReturn ==
    /\ last # Idle /\ http # Idle
    /\ last' = Idle /\ http' = Idle
    /\ UNCHANGED <<metaFile, pointsFile, hnswFile, indexCache, sinceCreate,
                   dbFiles, dbs, upserted, removed, asyncVars, auxVars>>

NextBoth ==
    \/ BothCreateCollection
    \/ BothUpsertPoints
    \/ BothQuery
    \/ BothCompactCollection
    \/ BothDeleteCollection
    \/ BothReturn

SpecBoth == Init /\ [][NextBoth]_vars

(***************************************************************************)
(* The log + snapshot Store with calls in flight in two slots: upsertPoints*)
(* and persistAllIndexes one await at a time, and a query that builds the  *)
(* cache one await at a time (one such query at a time, so that the cache  *)
(* entry other calls hold is the one in the Map)                           *)
(***************************************************************************)
MaxCacheLog == 2   \* lines in points.jsonl

CachePoints ==
    { Point(N1, <<1>>, JUndefined), Point(N1, <<0 - 1>>, PayloadA), Point(N2, <<1>>, PayloadB) }

\* the lines that calls in flight have yet to append
PendingLines == Cardinality({s \in Slots : inflight[s].pc = "append"})

\* ensureIndex after its two reads: the cache entry made of the snapshot
\* and the points that were read
BuildCache(snapshot, points, levels) ==
    LET Rebuilt(loaded) ==
            IF loaded = Null \/ IndexSize(loaded) # MapSize(points)
            THEN BuildIndex(NewIndex(DEFAULT_HNSW_CONFIG), points, levels, 1)
            ELSE loaded
    IN [index |-> Rebuilt(IF snapshot = NoFile THEN Null ELSE HnswDeserialize(snapshot)),
        payloads |-> PayloadsOf(points, 1, EmptyMap), dirty |-> FALSE]

CacheCreateCollection ==
    /\ \A s \in Slots : inflight[s] = NoCall
    /\ \E name \in CollectionNames :
          /\ metaFile[name] = NoFile
          /\ createCollection(name, 1, "Cosine")
    /\ UNCHANGED <<sqlVars, asyncVars, hnsw, hcall, inflight>>

\* upsertPoints is called with one valid point: getCollection, validation
CacheUpsertBegin ==
    \E s \in Slots, name \in CollectionNames, point \in CachePoints :
        /\ inflight[s] = NoCall
        /\ getCollection(name) # Null
        /\ UpsertValidation(<<point>>, 1, getCollection(name).vectors.size) = ""
        /\ LogLength(name) + PendingLines < MaxCacheLog
        /\ inflight' = [inflight EXCEPT ![s] =
               [kind |-> "upsert", pc |-> "append", name |-> name, points |-> <<point>>]]
        /\ UNCHANGED <<logVars, sqlVars, asyncVars, hnsw, hcall>>

\* fs.appendFile(pointsPath, lines)
CacheUpsertAppend ==
    \E s \in Slots :
        /\ inflight[s].pc = "append"
        /\ pointsFile' = [pointsFile EXCEPT ![inflight[s].name] =
               [lines |-> (IF @ = NoFile THEN <<>> ELSE @.lines)
                             \o [i \in 1..Len(inflight[s].points) |->
                                    PointLine(inflight[s].points[i])]]]
        /\ inflight' = [inflight EXCEPT ![s].pc = "apply"]
        /\ UNCHANGED <<metaFile, hnswFile, indexCache, last, sinceCreate,
                       sqlVars, asyncVars, hnsw, hcall>>

\* after the append: the cached index, if there is one, is updated and
\* marked dirty; upsertPoints returns
CacheUpsertApply ==
    \E s \in Slots :
        /\ inflight[s].pc = "apply"
        /\ \E levels \in [1..Len(inflight[s].points) -> 0..MaxLevel] :
              indexCache' = [indexCache EXCEPT ![inflight[s].name] =
                  IF @ = NoCache THEN @
                  ELSE [CacheInsertAll(@, inflight[s].points, levels, 1) EXCEPT !.dirty = TRUE]]
        /\ inflight' = [inflight EXCEPT ![s] = NoCall]
        /\ UNCHANGED <<metaFile, pointsFile, hnswFile, last, sinceCreate,
                       sqlVars, asyncVars, hnsw, hcall>>

\* query is called and ensureIndex finds no cached index
CacheQueryBegin ==
    \E s \in Slots, name \in CollectionNames :
        /\ inflight[s] = NoCall
        /\ \A t \in Slots : inflight[t].pc \notin {"snapshot", "points", "build"}
        /\ getCollection(name) # Null
        /\ indexCache[name] = NoCache
        /\ inflight' = [inflight EXCEPT ![s] =
               [kind |-> "query", pc |-> "snapshot", name |-> name,
                snapshot |-> NoFile, points |-> EmptyMap]]
        /\ UNCHANGED <<logVars, sqlVars, asyncVars, hnsw, hcall>>

\* ensureIndex: fs.readFile(hnswIndexPath)
CacheQuerySnapshot ==
    \E s \in Slots :
        /\ inflight[s].pc = "snapshot"
        /\ inflight' = [inflight EXCEPT ![s].pc = "points",
                                        ![s].snapshot = hnswFile[inflight[s].name]]
        /\ UNCHANGED <<logVars, sqlVars, asyncVars, hnsw, hcall>>

\* ensureIndex: loadLatestPoints reads points.jsonl
CacheQueryPoints ==
    \E s \in Slots :
        /\ inflight[s].pc = "points"
        /\ inflight' = [inflight EXCEPT ![s].pc = "build",
                                        ![s].points = loadLatestPoints(inflight[s].name)]
        /\ UNCHANGED <<logVars, sqlVars, asyncVars, hnsw, hcall>>

\* ensureIndex after its reads: the index is taken from the snapshot or
\* built, and set in the cache; the query searches it and returns
CacheQueryBuild ==
    \E s \in Slots :
        /\ inflight[s].pc = "build"
        /\ \E levels \in [Range(inflight[s].points.order) -> 0..MaxLevel] :
              indexCache' = [indexCache EXCEPT ![inflight[s].name] =
                  BuildCache(inflight[s].snapshot, inflight[s].points, levels)]
        /\ inflight' = [inflight EXCEPT ![s] = NoCall]
        /\ UNCHANGED <<metaFile, pointsFile, hnswFile, last, sinceCreate,
                       sqlVars, asyncVars, hnsw, hcall>>

\* persistAllIndexes finds a dirty index: persistHnswIndex serializes it
CachePersistBegin ==
    \E s \in Slots, name \in CollectionNames :
        /\ inflight[s] = NoCall
        /\ \A t \in Slots : inflight[t].pc \notin {"write", "clean"}
        /\ indexCache[name] # NoCache
        /\ indexCache[name].dirty
        /\ inflight' = [inflight EXCEPT ![s] =
               [kind |-> "persist", pc |-> "write", name |-> name,
                state |-> HnswSerialize(indexCache[name].index)]]
        /\ UNCHANGED <<logVars, sqlVars, asyncVars, hnsw, hcall>>

\* persistHnswIndex: fs.writeFile(hnswIndexPath, state)
CachePersistWrite ==
    \E s \in Slots :
        /\ inflight[s].pc = "write"
        /\ hnswFile' = [hnswFile EXCEPT ![inflight[s].name] = inflight[s].state]
        /\ inflight' = [inflight EXCEPT ![s].pc = "clean"]
        /\ UNCHANGED <<metaFile, pointsFile, indexCache, last, sinceCreate,
                       sqlVars, asyncVars, hnsw, hcall>>

\* persistHnswIndex after its write: cache.dirty = false
CachePersistEnd ==
    \E s \in Slots :
        /\ inflight[s].pc = "clean"
        /\ indexCache' = [indexCache EXCEPT ![inflight[s].name] = [@ EXCEPT !.dirty = FALSE]]
        /\ inflight' = [inflight EXCEPT ![s] = NoCall]
        /\ UNCHANGED <<metaFile, pointsFile, hnswFile, last, sinceCreate,
                       sqlVars, asyncVars, hnsw, hcall>>

NextCache ==
    \/ CacheCreateCollection
    \/ CacheUpsertBegin
    \/ CacheUpsertAppend
    \/ CacheUpsertApply
    \/ CacheQueryBegin
    \/ CacheQuerySnapshot
    \/ CacheQueryPoints
    \/ CacheQueryBuild
    \/ CachePersistBegin
    \/ CachePersistWrite
    \/ CachePersistEnd

SpecCache == Init /\ [][NextCache]_vars

(***************************************************************************)
(* The same Store with upsertPoints one await at a time in two slots and   *)
(* queries that run without another call in between                       *)
(***************************************************************************)
\* a query that finds no cached index and runs to its end: ensureIndex
\* reads the snapshot and the log, and sets the cache
OrderQuery ==
    /\ \E name \in CollectionNames :
          /\ getCollection(name) # Null
          /\ indexCache[name] = NoCache
          /\ \E levels \in BuildLevels(name, loadLatestPoints(name)) :
                indexCache' = [indexCache EXCEPT ![name] =
                    ensureIndex(name, loadLatestPoints(name), levels)]
    /\ UNCHANGED <<metaFile, pointsFile, hnswFile, last, sinceCreate,
                   sqlVars, asyncVars, auxVars>>

NextOrder ==
    \/ CacheCreateCollection
    \/ CacheUpsertBegin
    \/ CacheUpsertAppend
    \/ CacheUpsertApply
    \/ OrderQuery

SpecOrder == Init /\ [][NextOrder]_vars

(***************************************************************************)
(* An HNSWIndex that is only inserted into and searched                    *)
(***************************************************************************)
NextInsert ==
    \/ HnswInsertCall
    \/ HnswSearchCall
    \/ HnswReturn

SpecInsert == InitHnsw /\ [][NextInsert]_vars

(***************************************************************************)
(* An HNSWIndex searched with small candidate-list sizes, directly and by  *)
(* the filter loop of Store.queryWithHnsw                                  *)
(***************************************************************************)
\* efSearch of a call, hnswEfSearch of a Store: candidate-list sizes smaller
\* than the index
EfInputs == {1, 2}

EfK == {1, 3}

\* query vectors: an axis and the diagonal
EfVectors == {<<1, 0>>, <<1, 1>>}

\* index.search(queryVector, k, efSearch)
EfSearchCall ==
    /\ hcall = Idle
    /\ \E queryVector \in EfVectors, k \in EfK, ef \in EfInputs :
           hcall' = Call("search", "", <<queryVector, k, ef>>, TRUE,
                         HnswSearch(hnsw, queryVector, k, ef))
    /\ UNCHANGED <<logVars, sqlVars, asyncVars, hnsw, inflight>>

\* queryWithHnsw on a cached index, in a Store created with hnswEfSearch = ef
EfQueryCall ==
    /\ hcall = Idle
    /\ \E queryVector \in EfVectors, limit \in {20}, ef \in EfInputs :
           hcall' = Call("query", "", <<queryVector, limit, ef>>, TRUE,
                         queryWithEf([index |-> hnsw, payloads |-> EmptyMap], queryVector,
                                     limit, MkScore(0 - 1, 1), ef))
    /\ UNCHANGED <<logVars, sqlVars, asyncVars, hnsw, inflight>>

NextEf ==
    \/ HnswInsertCall
    \/ EfSearchCall
    \/ EfQueryCall
    \/ HnswReturn

SpecEf == InitHnsw /\ [][NextEf]_vars

(***************************************************************************)
(* points.jsonl with lines that do not parse, loaded by Store and by the   *)
(* migration script                                                        *)
(***************************************************************************)
MaxReplayLog == 3  \* lines in points.jsonl

\* the lines of two upserts of id 1, of one of id "1", and a torn line
ReplayLineInputs ==
    { PointLine(Point(N1, <<1>>, JUndefined)), PointLine(Point(N1, <<0 - 1>>, PayloadA)),
      PointLine(Point(S1, <<1>>, PayloadB)), BadLine }

\* migrateCollection: Array.from(pointsMap.values()) of the same replay
MigratePoints(lines) == CompactedLines(ReplayLines(lines, 1, EmptyMap))

\* a line is appended to the log of a collection
ReplayAppend ==
    /\ last = Idle
    /\ \E name \in CollectionNames, line \in ReplayLineInputs :
          /\ LogLength(name) < MaxReplayLog
          /\ pointsFile' = [pointsFile EXCEPT ![name] =
                 [lines |-> Append(IF @ = NoFile THEN <<>> ELSE @.lines, line)]]
    /\ UNCHANGED <<metaFile, hnswFile, indexCache, last, sinceCreate,
                   sqlVars, asyncVars, auxVars>>

ReplayLoad ==
    /\ last = Idle
    /\ \E name \in CollectionNames :
          last' = Call("loadLatestPoints", name, <<>>, TRUE, loadLatestPoints(name))
    /\ UNCHANGED <<metaFile, pointsFile, hnswFile, indexCache, sinceCreate,
                   sqlVars, asyncVars, auxVars>>

ReplayMigrate ==
    /\ last = Idle
    /\ \E name \in CollectionNames :
          /\ pointsFile[name] # NoFile
          /\ last' = Call("migrateCollection", name, <<>>, TRUE,
                          MigratePoints(pointsFile[name].lines))
    /\ UNCHANGED <<metaFile, pointsFile, hnswFile, indexCache, sinceCreate,
                   sqlVars, asyncVars, auxVars>>

NextReplay ==
    \/ ReplayAppend
    \/ ReplayLoad
    \/ ReplayMigrate
    \/ LogReturn

SpecReplay == Init /\ [][NextReplay]_vars

(***************************************************************************)
(* greedyClosest and searchLayer taken one iteration of their while-loops  *)
(* at a time, on the graphs insert and remove build.  `hcall` holds the    *)
(* locals of the call under way.                                           *)
(***************************************************************************)
SearchVectors == {<<1, 0>>, <<0, 1>>, <<1, 1>>}

SearchQueries == {<<1, 0>>, <<1, 1>>}

SearchEf == {1, 2}

\* index.insert(id, vector)
SearchInsert ==
    /\ hcall = Idle
    /\ \E id \in HnswIds, vector \in SearchVectors, level \in 0..MaxLevel :
           hnsw' = HnswInsert(hnsw, id, vector, level)
    /\ UNCHANGED <<logVars, sqlVars, asyncVars, hcall, inflight>>

SearchRemove ==
    /\ hcall = Idle
    /\ \E id \in HnswIds : hnsw' = HnswRemove(hnsw, id)
    /\ UNCHANGED <<logVars, sqlVars, asyncVars, hcall, inflight>>

\* a walk that moves to the first neighbor, closer or not
GreedyMoveAny(idx, queryVector, current, currentDist, level) ==
    LET nbrs == idx.nodes[current].neighbors[level]
    IN IF nbrs = <<>> THEN [id |-> current, dist |-> currentDist]
       ELSE [id |-> nbrs[1], dist |-> similarity(queryVector, idx.nodes[nbrs[1]].vector)]

\* one iteration of the while-loop of greedyClosest: the closest of
\* `current` and its neighbors
GreedyMove(idx, queryVector, current, currentDist, level) ==
    ClosestNeighbor(idx, queryVector, idx.nodes[current].neighbors[level], 1,
                    [id |-> current, dist |-> currentDist])

\* greedyClosest(queryVector, startNode, level) is called
GreedyBegin ==
    /\ hcall = Idle
    /\ \E queryVector \in SearchQueries, startNode \in DOMAIN hnsw.nodes, level \in 0..MaxLevel :
           hcall' = [op |-> "greedyClosest", args |-> <<queryVector, startNode, level>>,
                     current |-> startNode,
                     currentDist |-> similarity(queryVector, hnsw.nodes[startNode].vector),
                     done |-> FALSE]
    /\ UNCHANGED <<logVars, sqlVars, asyncVars, hnsw, inflight>>

\* the test and one iteration of the while-loop of greedyClosest, on the
\* locals `call` of the call
GreedyNext(idx, call) ==
    IF call.args[3] \notin DOMAIN idx.nodes[call.current].neighbors
    THEN [call EXCEPT !.done = TRUE]
    ELSE LET Move(best) ==
                 IF best.id = call.current THEN [call EXCEPT !.done = TRUE]
                 ELSE [call EXCEPT !.current = best.id, !.currentDist = best.dist]
         IN Move(GreedyMove(idx, call.args[1], call.current, call.currentDist, call.args[3]))

GreedyStep ==
    /\ hcall.op = "greedyClosest"
    /\ ~hcall.done
    /\ hcall' = GreedyNext(hnsw, hcall)
    /\ UNCHANGED <<logVars, sqlVars, asyncVars, hnsw, inflight>>

\* searchLayer(queryVector, [entry], ef, level) is called: the entry point is
\* scored; `expanded` keeps, as history, the ids popped so far
SearchLayerBegin ==
    /\ hcall = Idle
    /\ \E queryVector \in SearchQueries, entry \in DOMAIN hnsw.nodes,
          ef \in SearchEf, level \in 0..MaxLevel :
           hcall' = [op |-> "searchLayer", args |-> <<queryVector, entry, ef, level>>,
                     visited |-> {entry},
                     candidates |-> SortDesc(ScoreEntries(hnsw, queryVector, <<entry>>)),
                     results |-> ScoreEntries(hnsw, queryVector, <<entry>>),
                     popped |-> <<>>, expanded |-> {}, done |-> FALSE]
    /\ UNCHANGED <<logVars, sqlVars, asyncVars, hnsw, inflight>>

\* the test and one iteration of the while-loop of searchLayer, on the
\* locals `call` of the call
SearchLayerNext(idx, call) ==
    IF call.candidates = <<>>
    THEN [call EXCEPT !.results = SortDesc(@), !.done = TRUE]
    ELSE LET current == Last(call.candidates)
             results == SortDesc(call.results)
             ef      == call.args[3]
             level   == call.args[4]
             st0     == [call EXCEPT !.candidates = Front(@), !.results = results,
                                     !.popped = <<current>>]
             Expand(st) == [st EXCEPT !.candidates = SortDesc(@),
                                      !.expanded = @ \cup {current.id}]
         IN IF Len(results) >= ef /\ ScoreLT(current.score, results[ef].score)
            THEN [st0 EXCEPT !.done = TRUE]
            ELSE IF ~IndexHas(idx, current.id) THEN st0
            ELSE IF level \notin DOMAIN idx.nodes[current.id].neighbors THEN st0
            ELSE Expand(ExpandNeighbors(idx, call.args[1], ef,
                                        idx.nodes[current.id].neighbors[level], 1, st0))

SearchLayerStep ==
    /\ hcall.op = "searchLayer"
    /\ ~hcall.done
    /\ hcall' = SearchLayerNext(hnsw, hcall)
    /\ UNCHANGED <<logVars, sqlVars, asyncVars, hnsw, inflight>>

\* greedyClosest or searchLayer returns
SearchReturn ==
    /\ hcall.op \in {"greedyClosest", "searchLayer"}
    /\ hcall.done
    /\ hcall' = Idle
    /\ UNCHANGED <<logVars, sqlVars, asyncVars, hnsw, inflight>>

NextSearch ==
    \/ SearchInsert
    \/ SearchRemove
    \/ GreedyBegin
    \/ GreedyStep
    \/ SearchLayerBegin
    \/ SearchLayerStep
    \/ SearchReturn

SpecSearch == Init /\ [][NextSearch]_vars

\* an iteration of either loop
SearchStep == GreedyStep \/ SearchLayerStep

\* a greedyClosest or searchLayer call is inside its loop
Searching == IF hcall.op \in {"greedyClosest", "searchLayer"} THEN ~hcall.done ELSE FALSE

\* the loops are synchronous code, so a call inside its loop runs its next
\* iteration.  This is weak fairness of SearchStep, with the enabling
\* condition of <<SearchStep>>_vars written as Searching: the guards of the
\* two steps, and StepChangesLocals below.
SearchFairness == []<>~Searching \/ []<><<SearchStep>>_vars

SpecSearchFair == Init /\ [][NextSearch]_vars /\ SearchFairness

NextLog ==
    \/ LogStoreCreate
    \/ LogCreateCollection
    \/ LogDeleteCollection
    \/ LogUpsertPoints
    \/ LogQuery
    \/ LogCompactCollection
    \/ LogPersistAllIndexes
    \/ LogReturn

SpecLog == Init /\ [][NextLog]_vars

SqlRestart ==
    /\ http = Idle
    /\ SqlStoreCreate
    /\ UNCHANGED <<logVars, asyncVars, auxVars>>

SqlGetCollectionInfo ==
    /\ http = Idle
    /\ \E name \in CollectionNames : GetCollection(name)
    /\ UNCHANGED <<logVars, asyncVars, auxVars>>

SqlPutCollection ==
    /\ http = Idle
    /\ \E name \in CollectionNames, size \in SizeInputs, distance \in DistanceInputs :
           PutCollection(name, size, distance)
    /\ UNCHANGED <<logVars, asyncVars, auxVars>>

SqlDeleteCollection ==
    /\ http = Idle
    /\ \E name \in CollectionNames : DeleteCollection(name)
    /\ UNCHANGED <<logVars, asyncVars, auxVars>>

SqlPutPoints ==
    /\ http = Idle
    /\ \E name \in CollectionNames, points \in SqlBatches : PutPoints(name, points)
    /\ UNCHANGED <<logVars, asyncVars, auxVars>>

SqlPostQuery ==
    /\ http = Idle
    /\ \E name \in CollectionNames, q \in SqlQueryVectors, limit \in LimitInputs,
          th \in ThresholdInputs : PostQuery(name, q, limit, th)
    /\ UNCHANGED <<logVars, asyncVars, auxVars>>

SqlPostDelete ==
    /\ http = Idle
    /\ \E name \in CollectionNames, pointIds \in PointIdInputs, filter \in FilterInputs :
           PostDelete(name, pointIds, filter)
    /\ UNCHANGED <<logVars, asyncVars, auxVars>>

SqlPostCompact ==
    /\ http = Idle
    /\ \E name \in CollectionNames : PostCompact(name)
    /\ UNCHANGED <<logVars, asyncVars, auxVars>>

SqlStoreDeletePoints ==
    /\ http = Idle
    /\ \E name \in CollectionNames, pointIds \in PointIdInputs, filter \in FilterInputs :
           StoreDeletePoints(name, pointIds, filter)
    /\ UNCHANGED <<logVars, asyncVars, auxVars>>

\* the client takes the response
SqlReturn ==
    /\ http # Idle
    /\ http' = Idle
    /\ UNCHANGED <<dbFiles, dbs, upserted, removed>>
    /\ UNCHANGED <<logVars, asyncVars, auxVars>>

(***************************************************************************)
(* The SQLite Store with deleteCollection taken one await at a time, and   *)
(* getCollection, query and upsertPoints (synchronous inside) between its  *)
(* steps                                                                   *)
(***************************************************************************)
DeletePoints == { Point(N1, <<1>>, JUndefined), Point(N2, <<1>>, PayloadA) }

\* the Store holds a handle for a database file that was removed; what a
\* call reads through such a handle is not modelled
Stale(name) == name \in dbs /\ dbFiles[name] = NoFile

DelPutCollection ==
    /\ http = Idle
    /\ \A s \in Slots : inflight[s] = NoCall
    /\ \E name \in CollectionNames : PutCollection(name, 1, "Cosine")
    /\ UNCHANGED <<logVars, asyncVars, auxVars>>

DelGetCollection ==
    /\ http = Idle
    /\ \E name \in CollectionNames : ~Stale(name) /\ GetCollection(name)
    /\ UNCHANGED <<logVars, asyncVars, auxVars>>

DelPutPoints ==
    /\ http = Idle
    /\ \E name \in CollectionNames, point \in DeletePoints :
          ~Stale(name) /\ PutPoints(name, <<point>>)
    /\ UNCHANGED <<logVars, asyncVars, auxVars>>

DelPostQuery ==
    /\ http = Idle
    /\ \E name \in CollectionNames :
          ~Stale(name) /\ PostQuery(name, <<1>>, 20, MkScore(0 - 1, 1))
    /\ UNCHANGED <<logVars, asyncVars, auxVars>>

\* deleteCollection up to its first await: the handle is closed and leaves
\* the cache
DelBegin ==
    \E s \in Slots, name \in CollectionNames :
        /\ inflight[s] = NoCall
        /\ \A t \in Slots : inflight[t].pc \notin {"rm", "rmwal"}
        /\ dbs' = dbs \ {name}
        /\ inflight' = [inflight EXCEPT ![s] = [kind |-> "delete", pc |-> "rm", name |-> name]]
        /\ UNCHANGED <<dbFiles, upserted, removed, http, logVars, asyncVars, hnsw, hcall>>

\* fs.rm(dbFile, {force: true})
DelRm ==
    \E s \in Slots :
        /\ inflight[s].pc = "rm"
        /\ dbFiles' = [dbFiles EXCEPT ![inflight[s].name] = NoFile]
        /\ Forget(inflight[s].name)
        /\ inflight' = [inflight EXCEPT ![s].pc = "rmwal"]
        /\ UNCHANGED <<dbs, http, logVars, asyncVars, hnsw, hcall>>

\* the -wal and -shm files are removed and deleteCollection returns
DelEnd ==
    \E s \in Slots :
        /\ inflight[s].pc = "rmwal"
        /\ inflight' = [inflight EXCEPT ![s] = NoCall]
        /\ UNCHANGED <<sqlVars, logVars, asyncVars, hnsw, hcall>>

NextDelete ==
    \/ DelPutCollection
    \/ DelGetCollection
    \/ DelPutPoints
    \/ DelPostQuery
    \/ DelBegin
    \/ DelRm
    \/ DelEnd
    \/ SqlReturn

SpecDelete == Init /\ [][NextDelete]_vars

NextSql ==
    \/ SqlRestart
    \/ SqlGetCollectionInfo
    \/ SqlPutCollection
    \/ SqlDeleteCollection
    \/ SqlPutPoints
    \/ SqlPostQuery
    \/ SqlPostDelete
    \/ SqlPostCompact
    \/ SqlStoreDeletePoints
    \/ SqlReturn

SpecSql == Init /\ [][NextSql]_vars

(***************************************************************************)
(* Properties                                                              *)
(***************************************************************************)
\* the ids of a sequence of query results
ResultIds(results) == {results[i].id : i \in 1..Len(results)}

\* C1: after successful upserts every id has exactly one live point: a
\* query answered over HTTP never returns an id twice, and every id it
\* returns is one the client upserted, with the payload of that id's most
\* recent upsert.
C1_OneLivePointPerId ==
    (http.op = "POST query" /\ http.status = 200) =>
        /\ \A i, j \in 1..Len(http.result) :
               i # j => http.result[i].id # http.result[j].id
        /\ \A i \in 1..Len(http.result) :
               /\ http.result[i].id \in DOMAIN upserted[http.name]
               /\ http.result[i].payload = upserted[http.name][http.result[i].id]

\* a point of the batch that the collection of size `dimension` must reject
InvalidPoint(point, dimension) ==
    \/ point.id.t \notin {"string", "number"}
    \/ Len(point.vector) # dimension
    \/ \E k \in 1..Len(point.vector) : point.vector[k] = NonFinite

\* C2: an upsertPoints call that names a missing collection, or whose batch
\* holds a point with an unusable id, a vector of the wrong length or a
\* non-finite entry, fails, and the collection's metadata, its durable
\* points, its snapshot and its cached index stay exactly as they were:
\* no point of the batch is applied.
C2_RejectedUpsertChangesNothing ==
    [][ ( /\ last = Idle
          /\ last'.op = "upsertPoints"
          /\ \/ metaFile[last'.name] = NoFile
             \/ \E i \in 1..Len(last'.args) :
                    InvalidPoint(last'.args[i], metaFile[last'.name].size) )
        => ( /\ ~last'.ok
             /\ UNCHANGED <<metaFile, pointsFile, hnswFile, indexCache>> ) ]_vars

\* a rejected batch of two points, one of them valid, on a collection that
\* has a durable point and a cached index
C2_RejectedMixedBatch ==
    /\ last.op = "upsertPoints"
    /\ ~last.ok
    /\ metaFile[last.name] # NoFile
    /\ pointsFile[last.name] # NoFile
    /\ Len(pointsFile[last.name].lines) > 0
    /\ indexCache[last.name] # NoCache
    /\ Len(last.args) = 2
    /\ \E i \in 1..2 : ~InvalidPoint(last.args[i], metaFile[last.name].size)
    /\ \E i \in 1..2 : InvalidPoint(last.args[i], metaFile[last.name].size)

\* C3: createCollection on a name that already holds points leaves the
\* collection empty: a query answered afterwards returns only ids that were
\* upserted since that createCollection.
C3_RecreateLeavesEmpty ==
    (last.op = "query" /\ last.ok) => ResultIds(last.out) \subseteq sinceCreate[last.name]

\* C4: every live point of a collection (the latest line of each id in its
\* durable log) has a vector as long as the collection's current dimension.
C4_VectorsHaveCollectionDimension ==
    \A name \in CollectionNames :
        metaFile[name] # NoFile =>
            \A id \in Range(loadLatestPoints(name).order) :
                Len(loadLatestPoints(name).at[id].vector) = metaFile[name].size

\* C5: once deletePoints(name, ids) has completed, no query returns an id
\* of the list until that id is upserted again.
C5_DeletedIdsStayDeleted ==
    (http.op = "POST query" /\ http.status = 200) =>
        ResultIds(http.result) \cap removed[http.name] = {}

\* the value a payload holds under a path given by its segments
RECURSIVE ValueAt(_, _)
ValueAt(value, segments) ==
    IF segments = <<>> THEN value
    ELSE IF value.t = "object" /\ segments[1] \in DOMAIN value.f
         THEN ValueAt(value.f[segments[1]], Tail(segments))
         ELSE JUndefined

\* the dot-separated paths the conditions of the model use
PathSegments == ("path" :> <<"path">>) @@ ("meta.path" :> <<"meta", "path">>)

\* the {key, match.value} condition holds for the payload
ConditionHolds(payload, condition) ==
    ValueAt(payload, PathSegments[condition.f["key"].s]) = condition.f["match"].f["value"]

\* filters made of `must` or of `should` with complete conditions only
WellFormedFilters ==
    { JObj("must" :> JArr(<<CondPath>>)),
      JObj("must" :> JArr(<<CondPath, CondMetaPath>>)),
      JObj("should" :> JArr(<<CondPath, CondMetaPath>>)) }

\* the payload satisfies a well-formed filter: every condition of `must`,
\* at least one condition of `should`
Satisfies(payload, filter) ==
    IF "must" \in DOMAIN filter.f
    THEN \A c \in 1..Len(filter.f["must"].a) : ConditionHolds(payload, filter.f["must"].a[c])
    ELSE \E c \in 1..Len(filter.f["should"].a) : ConditionHolds(payload, filter.f["should"].a[c])

\* the stored payload of a point of the collection
PayloadOf(name, key) == ParsePayload(dbFiles[name].payloads[key])

\* a delete step, by the request or on the Store, on an existing collection
DeleteStep(name) ==
    /\ http = Idle
    /\ http'.op \in {"POST delete", "deletePoints"}
    /\ http'.name = name
    /\ dbFiles[name] # NoFile

MalformedFilters ==
    { JObj("must" :> JArr(<<>>)),
      JObj("must" :> JArr(<<JObj("key" :> JStr("path"))>>)),
      JObj("should" :> JArr(<<JObj("match" :> JObj("value" :> JStr("/a")))>>)),
      JObj(<<>>) }

\* C7: a delete request whose filter is unknown or malformed matches no
\* point: it is answered 200 and no point is removed.
C7_MalformedFilterMatchesNothing ==
    [][ \A name \in CollectionNames :
          ( /\ DeleteStep(name)
            /\ http'.op = "POST delete"
            /\ http'.body.points \in {JUndefined, JArr(<<>>)}
            /\ http'.body.filter \in MalformedFilters )
          => (http'.status = 200 /\ dbFiles' = dbFiles) ]_vars

\* C8: a delete request with a non-empty points list and a filter removes
\* every point that is named in the list or satisfies the filter.
C8_ListAndFilterBothApply ==
    [][ \A name \in CollectionNames :
          ( /\ DeleteStep(name)
            /\ http'.op = "POST delete"
            /\ http'.body.points.t = "array"
            /\ Len(http'.body.points.a) > 0
            /\ http'.body.filter \in WellFormedFilters )
          => \A key \in DOMAIN dbFiles[name].vectors :
                 ( \/ key \in {String(id) : id \in Range(http'.body.points.a)}
                   \/ Satisfies(PayloadOf(name, key), http'.body.filter) )
                 => key \notin DOMAIN dbFiles'[name].vectors ]_vars

\* C9: a delete for a collection that does not exist succeeds (200 over
\* HTTP, the count 0 from the Store), creates no collection and changes
\* neither the database files nor the open databases.
C9_DeleteOnAbsentCollection ==
    [][ \A name \in CollectionNames :
          ( /\ http = Idle
            /\ http'.op \in {"POST delete", "deletePoints"}
            /\ http'.name = name
            /\ dbFiles[name] = NoFile )
          => ( /\ http'.op = "POST delete" => http'.status = 200
               /\ http'.op = "deletePoints" => http'.result = 0
               /\ dbFiles' = dbFiles
               /\ dbs' = dbs ) ]_vars

\* a delete request that names ids was answered 200 for a collection that
\* does not exist
C9_AbsentCollectionAnswered ==
    /\ http.op = "POST delete"
    /\ http.status = 200
    /\ dbFiles[http.name] = NoFile
    /\ http.name \notin dbs
    /\ http.body.points.t = "array"
    /\ Len(http.body.points.a) > 0

\* a points-delete request whose body has neither `points` nor `filter`
BareDeleteStep(name) ==
    /\ http = Idle
    /\ http'.op = "POST delete"
    /\ http'.name = name
    /\ http'.body.points = JUndefined
    /\ http'.body.filter = JUndefined

\* C10 as stated: a points-delete request with neither a points list nor a
\* filter is answered 400 and removes nothing, whichever collection it names.
C10_BareDeleteAlways400 ==
    [][ \A name \in CollectionNames :
          BareDeleteStep(name) => (http'.status = 400 /\ dbFiles' = dbFiles) ]_vars

\* C10: a points-delete request with neither a points list nor a filter
\* removes nothing; it is answered 400 when the collection exists and 200
\* when it does not.
C10_BareDelete400IfCollectionExists ==
    [][ \A name \in CollectionNames :
          BareDeleteStep(name)
          => ( /\ dbFiles' = dbFiles
               /\ dbFiles[name] # NoFile => http'.status = 400
               /\ dbFiles[name] = NoFile => http'.status = 200 ) ]_vars

\* a bare delete request was answered 400 on a collection that holds points
C10_BareDeleteRejected ==
    /\ http.op = "POST delete"
    /\ http.status = 400
    /\ http.body.points = JUndefined
    /\ http.body.filter = JUndefined
    /\ dbFiles[http.name] # NoFile
    /\ DOMAIN dbFiles[http.name].vectors # {}

\* the latest line of the id in the durable log of the collection
LatestLine(name, id) == loadLatestPoints(name).at[id]

\* C11: a query answered by the log store returns at most `limit` results,
\* every one with a score of at least scoreThreshold, in descending score
\* order, each id at most once, each with the payload of the id's latest
\* upsert.
C11_QueryResultsRanked ==
    (last.op = "query" /\ last.ok) =>
        /\ Len(last.out) <= last.args[2]
        /\ \A i \in 1..Len(last.out) :
               /\ ScoreGE(last.out[i].score, last.args[3])
               /\ MapHas(loadLatestPoints(last.name), last.out[i].id)
               /\ last.out[i].payload = LatestLine(last.name, last.out[i].id).payload
        /\ \A i, j \in 1..Len(last.out) :
               i < j => /\ last.out[i].id # last.out[j].id
                        /\ ScoreGE(last.out[i].score, last.out[j].score)
\* C12: a read addressed to a collection that does not exist (get
\* collection, query) is answered 404.
C12_MissingCollectionReadsAre404 ==
    (http.op \in {"GET collection", "POST query"} /\ dbFiles[http.name] = NoFile)
        => http.status = 404
LiveIds(name) == DOMAIN upserted[name] \ removed[name]

\* C14: compactCollection returns the number of distinct live ids.  Stated
\* for collections whose points carry no payload, which no delete by
\* filter can remove: the live ids are those upserted and not deleted by
\* id since.
C14_CompactCountsLiveIds ==
    ( /\ http.op = "POST compact"
      /\ http.status = 200
      /\ \A id \in DOMAIN upserted[http.name] : upserted[http.name][id] = JNull )
    => http.result.unique_points = Cardinality(LiveIds(http.name))
\* the latest-wins replay of a points file
Replay(file) == IF file = NoFile THEN EmptyMap ELSE ReplayLines(file.lines, 1, EmptyMap)

\* the ids a query on the collection can return: those of the cached index,
\* or those of the durable log when no index is cached
VisibleIds(name) ==
    IF indexCache[name] = NoCache THEN Range(Replay(pointsFile[name]).order)
    ELSE Range(indexCache[name].index.order)

\* C15: for every interleaving of compactCollection with upsertPoints, each
\* upsert that returned is still in the durable log, and visible to
\* queries once the compaction has finished.
C15_CompactionKeepsAckedUpserts ==
    \A name \in CollectionNames :
        /\ DOMAIN acked[name] \subseteq Range(Replay(pointsFile[name]).order)
        /\ compacting = NoCall => DOMAIN acked[name] \subseteq VisibleIds(name)

\* C17: the log rewrite of compactCollection is atomic.  Whatever step is
\* taken while a compaction is in flight (its own, or the process
\* stopping), other than the append of an upsert, the log on disk replays
\* to the same point map as before the step or to the map the compaction
\* loaded, never to a part of it.
C17_CompactionRewriteIsAtomic ==
    [][ \A name \in CollectionNames :
          ( /\ compacting # NoCall
            /\ compacting.name = name
            /\ ~(upserting.pc = "append" /\ upserting'.pc = "cache") )
          => \/ Replay(pointsFile'[name]) = Replay(pointsFile[name])
             \/ /\ compacting.pc = "rename"
                /\ Replay(pointsFile'[name]) = compacting.points ]_vars

\* the process stopped while compactCollection was writing the temporary
\* file of a log that holds two lines for one id: a part of the compacted
\* lines is left in the temporary file, the log is whole
C17_StoppedDuringTempWrite ==
    \E name \in CollectionNames :
        /\ compacting = NoCall
        /\ pointsFile[name] # NoFile
        /\ Len(pointsFile[name].lines) = 2
        /\ MapSize(Replay(pointsFile[name])) = 1
        /\ tmpFile[name] # NoFile
        /\ tmpFile[name].lines = <<>>
\* the ids of the lines of a log
LineIds(lines) == {lines[i].id : i \in 1..Len(lines)}

\* the last line of the log that names the id
LastLineOf(lines, id) ==
    lines[CHOOSE i \in 1..Len(lines) :
              /\ lines[i].id = id
              /\ \A j \in 1..Len(lines) : lines[j].id = id => j <= i]

\* C16: compactCollection rewrites the log to exactly one line per id, the
\* most recent line of that id; replaying the compacted log gives the same
\* id -> (vector, payload) map as replaying the original, and compacting
\* the compacted log gives the same log again.
C16_CompactionKeepsLatestPerId ==
    [][ \A name \in CollectionNames :
          ( /\ last = Idle
            /\ last'.op = "compactCollection"
            /\ last'.ok
            /\ last'.name = name )
          => LET old == pointsFile[name].lines
                 new == pointsFile'[name].lines
             IN /\ \A i, j \in 1..Len(new) : i # j => new[i].id # new[j].id
                /\ LineIds(new) = LineIds(old)
                /\ \A i \in 1..Len(new) : new[i] = LastLineOf(old, new[i].id)
                /\ Replay(pointsFile'[name]) = Replay(pointsFile[name])
                /\ CompactedLines(Replay(pointsFile'[name])) = new ]_vars

\* a log of two lines for one id was compacted to the later line
C16_CompactedTwoLinesToOne ==
    /\ last.op = "compactCollection"
    /\ last.ok
    /\ last.args = <<2>>
    /\ last.out = 1
    /\ pointsFile[last.name].lines = <<PointLine(Point(N1, <<0 - 1>>, PayloadA))>>
\* the index holds exactly the ids of the map of points, each with the
\* vector the map gives it
IndexHolds(idx, points) ==
    /\ Range(idx.order) = Range(points.order)
    /\ \A id \in Range(points.order) : idx.nodes[id].vector = points.at[id].vector

\* every id of the log was upserted since the collection was last created
LogSinceCreate(name) == LineIds(pointsFile[name].lines) \subseteq sinceCreate[name]

\* C20: a query that finds no cached index (as the first query after a
\* restart does) leaves an index that holds exactly the latest-wins replay
\* of the log, whether it was loaded from the snapshot or rebuilt.
C20_FirstQueryUsesReplayOfLog ==
    [][ \A name \in CollectionNames :
          ( /\ last = Idle
            /\ last'.op = "query"
            /\ last'.ok
            /\ last'.name = name
            /\ indexCache[name] = NoCache
            /\ LogSinceCreate(name) )
          => /\ indexCache'[name] # NoCache
             /\ IndexHolds(indexCache'[name].index, Replay(pointsFile'[name])) ]_vars

\* C18: when compactCollection has completed, the cached index holds exactly
\* the ids and latest vectors of the compacted log, the snapshot file is the
\* serialization of that index, and the cache is not dirty.
C18_CompactionLeavesFreshIndex ==
    \A name \in CollectionNames :
        ( /\ last.op = "compactCollection"
          /\ last.ok
          /\ last.name = name
          /\ LogSinceCreate(name) )
        => /\ indexCache[name] # NoCache
           /\ IndexHolds(indexCache[name].index, Replay(pointsFile[name]))
           /\ hnswFile[name] = HnswSerialize(indexCache[name].index)
           /\ ~indexCache[name].dirty
\* C19: after deleteCollection the collection is not found and has no cached
\* index; deleting a collection that does not exist succeeds and changes
\* neither the files nor the cache.
C19_DeleteCollectionRemovesAll ==
    [][ \A name \in CollectionNames :
          ( /\ last = Idle
            /\ last'.op = "deleteCollection"
            /\ last'.name = name )
          => /\ last'.ok
             /\ metaFile'[name] = NoFile
             /\ indexCache'[name] = NoCache
             /\ metaFile[name] = NoFile
                    => /\ <<metaFile', pointsFile', hnswFile'>> = <<metaFile, pointsFile, hnswFile>>
                       /\ indexCache' = indexCache ]_vars

\* a collection with a log, a snapshot and a cached index was deleted
C19_DeletedCachedCollection ==
    /\ last.op = "deleteCollection"
    /\ last.ok
    /\ last.args = <<TRUE, TRUE>>
    /\ metaFile[last.name] = NoFile
    /\ pointsFile[last.name] = NoFile
    /\ hnswFile[last.name] = NoFile
    /\ indexCache[last.name] = NoCache

\* the ids of the results, in their order
ResultOrder(results) == [i \in 1..Len(results) |-> results[i].id]

\* C22: deserialize(serialize(index)) has the same nodes, vectors, levels,
\* per-level neighbor sets, entry point and max level as the index, and
\* search returns the same ids in the same order on both.
C22_SerializeRoundTrip ==
    [][ (hcall = Idle /\ hcall'.op = "deserialize")
        => /\ hnsw'.order = hnsw.order
           /\ DOMAIN hnsw'.nodes = DOMAIN hnsw.nodes
           /\ \A id \in DOMAIN hnsw.nodes :
                  /\ hnsw'.nodes[id].vector = hnsw.nodes[id].vector
                  /\ hnsw'.nodes[id].layer = hnsw.nodes[id].layer
                  /\ hnsw'.nodes[id].neighbors = hnsw.nodes[id].neighbors
           /\ hnsw'.entryPoint = hnsw.entryPoint
           /\ hnsw'.maxLevel = hnsw.maxLevel
           /\ \A queryVector \in HnswVectors, k \in HnswK :
                  ResultOrder(HnswSearch(hnsw', queryVector, k, hnsw'.config.efSearch))
                      = ResultOrder(HnswSearch(hnsw, queryVector, k, hnsw.config.efSearch)) ]_vars

\* an index of three nodes on two levels, with links on level 1, that came
\* out of deserialize(serialize())
C22_ReloadedTwoLevelGraph ==
    /\ hcall.op = "deserialize"
    /\ IndexSize(hnsw) = 3
    /\ hnsw.maxLevel = 1
    /\ \E id \in DOMAIN hnsw.nodes :
           hnsw.nodes[id].layer = 1 /\ Len(hnsw.nodes[id].neighbors[1]) > 0

\* the vector has an entry that is not 0
NonZero(vector) == \E i \in 1..Len(vector) : vector[i] # 0

\* the search with P's own vector puts a result of score 1 first, and P is
\* among the results of score 1
SelfFirst(id) ==
    LET Check(results) ==
            /\ Len(results) > 0
            /\ results[1].score = MkScore(1, 1)
            /\ \E i \in 1..Len(results) :
                   results[i].id = id /\ results[i].score = MkScore(1, 1)
    IN Check(HnswSearch(hnsw, hnsw.nodes[id].vector, IndexSize(hnsw), hnsw.config.efSearch))

C25_RemoveLeavesNoEdge ==
    [][ (hcall = Idle /\ hcall'.op = "remove")
        => /\ ~IndexHas(hnsw', hcall'.args[1])
           /\ \A x \in DOMAIN hnsw'.nodes : \A l \in DOMAIN hnsw'.nodes[x].neighbors :
                  hcall'.args[1] \notin Range(hnsw'.nodes[x].neighbors[l])
           /\ ~IndexHas(hnsw, hcall'.args[1]) => hnsw' = hnsw ]_vars

\* a node was removed from a graph of three, and the two that remain are
\* linked to each other
C25_RemovedLinkedNode ==
    /\ hcall.op = "remove"
    /\ hcall.out = TRUE
    /\ IndexSize(hnsw) = 2
    /\ \A x \in DOMAIN hnsw.nodes : Len(hnsw.nodes[x].neighbors[0]) = 1

\* C26: insert(id, vector) for an id already in the index replaces only
\* that node's vector: levels, neighbor sets, entry point, max level and
\* the node count are unchanged.
C26_ReinsertReplacesVectorOnly ==
    [][ (hcall = Idle /\ hcall'.op = "insert" /\ IndexHas(hnsw, hcall'.args[1]))
        => /\ hnsw'.order = hnsw.order
           /\ DOMAIN hnsw'.nodes = DOMAIN hnsw.nodes
           /\ hnsw'.entryPoint = hnsw.entryPoint
           /\ hnsw'.maxLevel = hnsw.maxLevel
           /\ \A x \in DOMAIN hnsw.nodes :
                  /\ hnsw'.nodes[x].layer = hnsw.nodes[x].layer
                  /\ hnsw'.nodes[x].neighbors = hnsw.nodes[x].neighbors
                  /\ hnsw'.nodes[x].vector =
                         IF x = hcall'.args[1] THEN hcall'.args[2] ELSE hnsw.nodes[x].vector ]_vars

\* a linked node on level 0 was inserted again with another level drawn and
\* holds the new vector
C26_ReinsertedLinkedNode ==
    /\ hcall.op = "insert"
    /\ hcall.out = TRUE
    /\ hcall.args[3] = 1
    /\ IndexSize(hnsw) = 2
    /\ hnsw.nodes[hcall.args[1]].layer = 0
    /\ hnsw.nodes[hcall.args[1]].vector = hcall.args[2]
    /\ Len(hnsw.nodes[hcall.args[1]].neighbors[0]) = 1

\* C30: the entry point is null exactly when the index is empty, and
\* otherwise is a node whose level equals maxLevel and is the highest level
\* of any node.
C30_EntryPointIsHighest ==
    /\ hnsw.entryPoint = NullId <=> IndexIsEmpty(hnsw)
    /\ ~IndexIsEmpty(hnsw)
          => /\ IndexHas(hnsw, hnsw.entryPoint)
             /\ hnsw.nodes[hnsw.entryPoint].layer = hnsw.maxLevel
             /\ \A x \in DOMAIN hnsw.nodes : hnsw.nodes[x].layer <= hnsw.maxLevel

\* the entry point was removed and a node of level 1 took its place while
\* a node of level 0 stands before it in the Map
C30_EntryPointReselected ==
    /\ hcall.op = "remove"
    /\ hcall.out = TRUE
    /\ hcall.args[2] = TRUE
    /\ IndexSize(hnsw) = 2
    /\ hnsw.nodes[hnsw.order[1]].layer = 0
    /\ hnsw.entryPoint = hnsw.order[2]
    /\ hnsw.maxLevel = 1
\* the key holds a finite, positive number
PositiveSize(v) == v.t = "number" /\ v.n > 0

\* the values of the four keys, in the order they are looked at
SizeKeys(body) ==
    <<body.vectors_size, body.vectors_params_size, body.vector_size, body.dimension>>

\* C24: on collection create the vector size is the first of vectors.size,
\* vectors.params.size, vector_size, dimension that is present, finite and
\* positive; the request fails only when no key holds such a value.
C24_FirstPositiveSizeWins ==
    [][ \A name \in CollectionNames :
          (http = Idle /\ http'.op = "PUT collection" /\ http'.name = name)
          => LET keys == SizeKeys(http'.body)
                 good == {i \in 1..4 : PositiveSize(keys[i])}
             IN IF good = {} THEN http'.status = 400
                ELSE /\ http'.status = 200
                     /\ dbFiles'[name].size =
                            keys[CHOOSE i \in good : \A j \in good : i <= j].n ]_vars
\* C21: the log + snapshot Store and the SQLite Store are observationally
\* equivalent: after the same calls both give the same error outcome, the
\* same unique-point count on compaction and the same set of live ids to a
\* query for every point.
C21_StoresAgree ==
    last.op # "idle"
        => /\ last.ok <=> http.status = 200
           /\ (last.op = "compactCollection" /\ last.ok)
                  => http.result.unique_points = last.out
           /\ (last.op = "query" /\ last.ok)
                  => ResultIds(http.result) = ResultIds(last.out)
\* no call is in flight
Quiet == \A s \in Slots : inflight[s] = NoCall

\* C27: a cached index is clean only if the snapshot on disk contains every
\* mutation applied to it: whenever a dirty index becomes clean, the
\* snapshot file is the serialization of the index as it then is.
C27_CleanMeansPersisted ==
    [][ \A name \in CollectionNames :
          ( /\ indexCache[name] # NoCache
            /\ indexCache[name].dirty
            /\ indexCache'[name] # NoCache
            /\ ~indexCache'[name].dirty )
          => hnswFile'[name] = HnswSerialize(indexCache'[name].index) ]_vars

\* C28: whenever no call is in flight, a cached index holds exactly the ids
\* and latest vectors of the durable log, so that a query that starts after
\* an upsert returned sees its points.
C28_CacheHoldsLogWhenQuiet ==
    \A name \in CollectionNames :
        (Quiet /\ indexCache[name] # NoCache)
        => IndexHolds(indexCache[name].index, Replay(pointsFile[name]))

\* C29: for upserts of the same id, the version that is latest in the log is
\* the version the cached index holds, with its payload, once the upserts
\* have returned.
C29_CacheHoldsLatestVersion ==
    \A name \in CollectionNames :
        (Quiet /\ indexCache[name] # NoCache)
        => \A id \in LineIds(pointsFile[name].lines) :
              /\ IndexHas(indexCache[name].index, id)
              /\ indexCache[name].index.nodes[id].vector
                     = LastLineOf(pointsFile[name].lines, id).vector
              /\ MapHas(indexCache[name].payloads, id)
              /\ indexCache[name].payloads.at[id]
                     = LastLineOf(pointsFile[name].lines, id).payload
\* the level a neighbor set of `idx` may hold: Mmax0 ids at level 0, M above
MaxConnections(idx, L) == IF L = 0 THEN idx.config.Mmax0 ELSE idx.config.M

\* C31: for every level L and nodes a and b, b is in a's neighbor set at L
\* exactly when a is in b's neighbor set at L, and both nodes exist.
C31_EdgesAreSymmetric ==
    \A a \in DOMAIN hnsw.nodes : \A L \in DOMAIN hnsw.nodes[a].neighbors :
        \A b \in Range(hnsw.nodes[a].neighbors[L]) :
            /\ IndexHas(hnsw, b)
            /\ L \in DOMAIN hnsw.nodes[b].neighbors
            /\ a \in Range(hnsw.nodes[b].neighbors[L])

\* an insert into a graph of two linked nodes made pruneConnections cut an
\* edge: of the three nodes one is left without a neighbor at level 0
C31_PrunedEdgeCutBothSides ==
    /\ hcall.op = "insert"
    /\ hcall.out = FALSE
    /\ IndexSize(hnsw) = 3
    /\ hnsw.config.Mmax0 = 1
    /\ \E x \in DOMAIN hnsw.nodes : x # hcall.args[1] /\ hnsw.nodes[x].neighbors[0] = <<>>
    /\ Len(hnsw.nodes[hcall.args[1]].neighbors[0]) = 1

C33_LevelsUpToAssigned ==
    \A a \in DOMAIN hnsw.nodes :
        /\ DOMAIN hnsw.nodes[a].neighbors = 0..hnsw.nodes[a].layer
        /\ \A L \in DOMAIN hnsw.nodes[a].neighbors :
               \A b \in Range(hnsw.nodes[a].neighbors[L]) :
                   IndexHas(hnsw, b) /\ hnsw.nodes[b].layer >= L

\* a node of level 1 was inserted into a graph that holds a node of level 0
\* and a node of level 1: it is linked to both at level 0 and to the
\* second alone at level 1
C33_MixedLevelsLinked ==
    /\ hcall.op = "insert"
    /\ hcall.out = FALSE
    /\ hcall.args[3] = 1
    /\ IndexSize(hnsw) = 3
    /\ \E x \in DOMAIN hnsw.nodes : hnsw.nodes[x].layer = 0
    /\ Len(hnsw.nodes[hcall.args[1]].neighbors[0]) = 2
    /\ Len(hnsw.nodes[hcall.args[1]].neighbors[1]) = 1

\* the nodes that level-0 edges lead to from the nodes of S
RECURSIVE ReachFrom(_, _)
ReachFrom(idx, S) ==
    LET T == S \cup {b \in DOMAIN idx.nodes :
                       \E a \in S : b \in Range(idx.nodes[a].neighbors[0])}
    IN IF T = S THEN S ELSE ReachFrom(idx, T)

\* C37: after any sequence of inserts, every node is reachable from the
\* entry point by level-0 edges, and once the index has two or more nodes
\* none is left without neighbors.
C37_AllReachableFromEntry ==
    ~IndexIsEmpty(hnsw)
    => /\ ReachFrom(hnsw, {hnsw.entryPoint}) = DOMAIN hnsw.nodes
       /\ IndexSize(hnsw) >= 2
             => \A x \in DOMAIN hnsw.nodes : hnsw.nodes[x].neighbors[0] # <<>>
C39_IdsKeepValueAndType ==
    /\ (http.op = "PUT points" /\ http.status = 200)
          => Cardinality(DOMAIN dbFiles[http.name].vectors)
                >= Cardinality({http.body[i].id : i \in 1..Len(http.body)})
    /\ (http.op = "POST query" /\ http.status = 200)
          => \A i \in 1..Len(http.result) : http.result[i].id \in DOMAIN upserted[http.name]
\* the lines of the log that parse
GoodLines(lines) == SelectSeq(lines, LAMBDA l : l # BadLine)

\* C35: loading replays the log in order into an id-keyed map in which a
\* later entry for an id replaces an earlier one; an unparseable line is
\* skipped and does not change the entries obtained from the other lines.
C35_ReplayLatestWinsSkipsBad ==
    /\ (last.op = "loadLatestPoints" /\ pointsFile[last.name] # NoFile)
          => LET good == GoodLines(pointsFile[last.name].lines)
             IN /\ Range(last.out.order) = LineIds(good)
                /\ Len(last.out.order) = Cardinality(LineIds(good))
                /\ \A id \in LineIds(good) : last.out.at[id] = LastLineOf(good, id)
    /\ last.op = "migrateCollection"
          => LET good == GoodLines(pointsFile[last.name].lines)
             IN /\ Range(last.out) = {LastLineOf(good, id) : id \in LineIds(good)}
                /\ Len(last.out) = Cardinality(LineIds(good))

\* a log of two lines of one id with a torn line between them was loaded,
\* and the map holds the later of the two
C35_LoadedAcrossTornLine ==
    /\ last.op = "loadLatestPoints"
    /\ pointsFile[last.name] # NoFile
    /\ Len(pointsFile[last.name].lines) = 3
    /\ pointsFile[last.name].lines[2] = BadLine
    /\ pointsFile[last.name].lines[1] # BadLine
    /\ pointsFile[last.name].lines[3] # BadLine
    /\ pointsFile[last.name].lines[1] # pointsFile[last.name].lines[3]
    /\ last.out.order = <<N1>>
    /\ last.out.at[N1] = pointsFile[last.name].lines[3]
\* C40: when getCollection, query or upsertPoints runs between the awaited
\* steps of a deleteCollection of the same collection, no database handle
\* for the deleted collection remains cached once the delete has completed.
C40_NoHandleAfterDelete ==
    \A name \in CollectionNames :
        ( /\ \A s \in Slots : inflight[s].pc \notin {"rm", "rmwal"}
          /\ dbFiles[name] = NoFile )
        => name \notin dbs
\* C34: searchLayer expands candidates best-first: each step takes the
\* pending candidate with the highest similarity to the query, and the loop
\* stops only when that candidate scores below the worst of ef kept results.
C34_ExpandsBestFirst ==
    [][ (hcall.op = "searchLayer" /\ hcall'.op = "searchLayer" /\ hcall.candidates # <<>>)
        => /\ \A i \in 1..Len(hcall.candidates) :
                  ScoreGE(hcall'.popped[1].score, hcall.candidates[i].score)
           /\ hcall'.done
                 => /\ Len(hcall.results) >= hcall.args[3]
                    /\ ScoreLT(hcall'.popped[1].score,
                               SortDesc(hcall.results)[hcall.args[3]].score) ]_vars

\* the iteration a call inside its loop runs next changes the locals of
\* the call, so it is a step the call can take
StepChangesLocals ==
    Searching =>
        hcall # (IF hcall.op = "greedyClosest" THEN GreedyNext(hnsw, hcall)
                 ELSE SearchLayerNext(hnsw, hcall))

\* C36: greedyClosest and searchLayer terminate on every graph the index can
\* reach: a call inside its loop leaves it, greedy descent moves only to a
\* strictly closer neighbor, and searchLayer never expands a node twice:
\* it queues only nodes it has not visited before.
C36_SearchesTerminate ==
    /\ Searching ~> ~Searching
    /\ []StepChangesLocals
    /\ [][ /\ (hcall.op = "greedyClosest" /\ hcall'.op = "greedyClosest"
                   /\ hcall'.current # hcall.current)
                 => DistanceLT(hcall'.currentDist, hcall.currentDist)
           /\ (hcall.op = "searchLayer" /\ hcall'.op = "searchLayer"
                   /\ hcall'.expanded # hcall.expanded)
                 => /\ hcall'.popped[1].id \notin hcall.expanded
                    /\ \A i \in 1..Len(hcall'.candidates) :
                           \/ \E j \in 1..Len(hcall.candidates) :
                                  hcall.candidates[j] = hcall'.candidates[i]
                           \/ hcall'.candidates[i].id \notin hcall.visited ]_vars

\* a greedyClosest call has moved twice, and a searchLayer call has
\* expanded three nodes of a triangle
C36_WalkedAndExpanded ==
    \/ /\ hcall.op = "greedyClosest"
       /\ hcall.done
       /\ hcall.current # hcall.args[2]
       /\ Len(hnsw.nodes[hcall.current].neighbors[hcall.args[3]]) = 2
    \/ /\ hcall.op = "searchLayer"
       /\ hcall.done
       /\ Cardinality(hcall.expanded) = 3
====
